---- MODULE Spec2Model ----
(***************************************************************************)
(* Verification model of the-all-seeing-crab: the cancellable scanline     *)
(* scheduler (main.rs run_render_loop), its consumer (ui.rs UiData /       *)
(* TemplateApp::update), and the AABB / BVH intersection code.             *)
(***************************************************************************)
EXTENDS Integers, Sequences, FiniteSets, TLC

(* ---------- bounds of the model ---------- *)
MaxRequests == 2      \* render requests the UI issues in one run
MaxWidth == 2         \* the widest image_width requested
MaxRows == 3          \* rows of all the renders requested in one run
PoolSize == 2         \* worker threads of the rayon pool running row tasks

VARIABLES
    reqs,          \* every RenderCommand sent on the command channel, in order
    gen,           \* number of commands the scheduler has received so far
    schedPc,       \* position of run_render_loop inside its handler
    abort_switch,  \* index of the flag the scheduler currently holds
    flags,         \* the AtomicBool cells allocated so far: index -> BOOLEAN
    stores,        \* number of store(true) executed on each flag
    tasks,         \* row tasks: <<generation, j>> -> [pc, l1, l2]
    resLog,        \* every RenderResult sent on the result channel, in order
    consumed,      \* number of results the consumer has taken off the channel
    data,          \* TemplateApp.data : Option<UiData>
    saved,         \* buffers handed to save_output_to_file, in order
    uiPanic,       \* "none", or the assertion that killed the UI thread
    \* --- geometry: one BVH build and query, or one surrounding_box triple ---
    gPc,             \* "off", "scene", "built", "panicked", "queried", "boxes", "joined"
    overflow_checks, \* build profile: integer overflow panics (debug) or wraps
    world,           \* the Vec<Box<dyn Hittable>> handed to BvhNode::new
    node,            \* what BvhNode::new returned
    query,           \* the ray and range of the hit query
    hit_bvh,         \* result of BvhNode::hit
    hit_list,        \* result of HittableList::hit over the same objects
    boxA, boxB, boxC,  \* three Aabb values
    sbox,            \* surrounding boxes computed from them
    times,           \* <<time0, time1>> handed to bounding_box and BvhNode::new
    bboxes,          \* what bounding_box returned for each object of world
    \* --- one evaluation of ray_color, step by step ---
    rcPc,            \* "off", "call", "trace", "scatter", "done"
    rcMode,          \* the RayColorMode of the current invocation
    rcRay,           \* the ray of the current invocation
    rcRec,           \* the HitRecord of the current invocation
    rcGhost,         \* bookkeeping: initial depth, invocations, traces, result
    \* --- one call of a pure function ---
    call,            \* the function and its arguments
    ret,             \* what it returned
    \* --- the process around the render pipeline ---
    assets,          \* the texture files load_from_png can read
    app              \* TemplateApp: "running", "tx_dropped", "dropped"

renderVars == <<reqs, gen, schedPc, abort_switch, flags, stores, tasks,
                resLog, consumed, data, saved, uiPanic>>

shapeVars == <<gPc, overflow_checks, world, node, query, hit_bvh, hit_list,
               boxA, boxB, boxC, sbox, times, bboxes>>

traceVars == <<rcPc, rcMode, rcRay, rcRec, rcGhost, call, ret>>

envVars == <<assets, app>>

geomVars == <<shapeVars, traceVars, envVars>>

vars == <<renderVars, geomVars>>

\* image_width: the narrowest image and the widest one.
Widths == {1, MaxWidth}
Heights == 1..MaxRows
\* RenderScene: a scene built from code alone, and one that reads a texture.
Scenes == {"ThreeBody", "EarthGlobe"}

\* The requests of the render pipeline ask for a scene built from code alone.
Configs == [image_width : Widths, image_height : Heights, scene : {"ThreeBody"}]

NoData == [present |-> FALSE]

(* ---------- channels ---------- *)
\* flume::unbounded FIFO: what has been sent and not yet received.
CommandQueue == SubSeq(reqs, gen + 1, Len(reqs))
ResultQueue == SubSeq(resLog, consumed + 1, Len(resLog))

\* (Mutant: the two dimensions in the wrong fields.)
Reset_Swapped(g, cfg) ==
    [kind |-> "Reset", gen |-> g,
     image_width |-> cfg.image_height, image_height |-> cfg.image_width]

Reset(g, cfg) ==
    [kind |-> "Reset", gen |-> g,
     image_width |-> cfg.image_width, image_height |-> cfg.image_height]

\* line_pixels is modelled by its length; gen is a ghost tag naming the
\* generation whose task produced the line (the Rust value carries no tag).
ImageLine(g, j, w) ==
    [kind |-> "ImageLine", gen |-> g, line_num |-> j, len |-> w]

(* ---------- UI: issuing render requests ---------- *)
RECURSIVE RowsRequested(_)
RowsRequested(n) == IF n = 0 THEN 0 ELSE RowsRequested(n - 1) + reqs[n].image_height

\* send(..).ok().expect(..): the send fails once the scheduler has dropped
\* the receiver.
trigger_render(cfg) ==
    /\ uiPanic = "none"
    /\ app = "running"
    /\ UNCHANGED geomVars
    /\ Len(reqs) < MaxRequests
    /\ RowsRequested(Len(reqs)) + cfg.image_height <= MaxRows
    /\ IF schedPc \in {"panicked", "exited"}
       THEN uiPanic' = "send" /\ UNCHANGED reqs
       ELSE reqs' = Append(reqs, cfg) /\ UNCHANGED uiPanic
    /\ UNCHANGED <<gen, schedPc, abort_switch, flags, stores, tasks,
                   resLog, consumed, data, saved>>

(* ---------- scheduler: run_render_loop ---------- *)
\* (0..config.image_height).rev().collect::<Vec<_>>()
\* (Mutant: an inclusive range.)
RowIndices_Inclusive(h) == 0..h

RowIndices(h) == 0..(h - 1)

InFlight == {t \in DOMAIN tasks : tasks[t].pc \in {"queued", "sampling", "sending"}}

\* The row tasks the scheduler waits for before it goes back to recv(): none,
\* because the JoinHandle of the spawned thread is dropped.  (Mutant: the
\* handle is joined, so the scheduler waits for every row task.)
JoinedTasks_Join == InFlight

JoinedTasks == {}

\* recv() returned Ok(Render{..}); the Reset is sent first, and
\* .ok().expect(..) panics if the result receiver has been dropped.
SchedRecvReset ==
    /\ uiPanic = "none"
    /\ UNCHANGED geomVars
    /\ schedPc = "recv"
    /\ JoinedTasks = {}
    /\ CommandQueue # <<>>
    /\ gen' = gen + 1
    /\ IF app = "dropped"
       THEN schedPc' = "panicked" /\ UNCHANGED resLog
       ELSE /\ resLog' = Append(resLog, Reset(gen + 1, reqs[gen + 1]))
            /\ schedPc' = "abort"
    /\ UNCHANGED <<reqs, abort_switch, flags, stores, tasks,
                   consumed, data, saved, uiPanic>>

\* The flag cells after a store(true) into the held one followed by the
\* allocation of a fresh one that starts false.  (Mutant: the two statements
\* in the opposite order, so the store lands in the fresh cell.)
AbortAndRealloc_Swapped(fl, old, new) ==
    [i \in DOMAIN fl \cup {new} |-> IF i = new THEN TRUE ELSE fl[i]]

\* (Mutant: the fresh flag is allocated without the store into the held one.)
AbortAndRealloc_NoStore(fl, old, new) ==
    [i \in DOMAIN fl \cup {new} |-> IF i = new THEN FALSE ELSE fl[i]]

AbortAndRealloc(fl, old, new) ==
    [i \in DOMAIN fl \cup {new} |->
        IF i = old THEN TRUE ELSE IF i = new THEN FALSE ELSE fl[i]]

\* should_abort.store(true); abort_switch = Some(Arc::new(AtomicBool::new(false)))
SchedAbort ==
    /\ uiPanic = "none"
    /\ UNCHANGED geomVars
    /\ schedPc = "abort"
    /\ flags' = AbortAndRealloc(flags, abort_switch, gen)
    /\ stores' = [i \in DOMAIN flags \cup {gen} |->
                    IF i = abort_switch THEN stores[i] + 1
                    ELSE IF i = gen THEN 0 ELSE stores[i]]
    /\ abort_switch' = gen
    /\ schedPc' = "build"
    /\ UNCHANGED <<reqs, gen, tasks, resLog, consumed, data, saved, uiPanic>>

\* The files RenderScene::create_world hands to ImageTexture::load_from_png.
TexturesOf(scene) == IF scene = "EarthGlobe" THEN {"textures/earthmap.png"} ELSE {}

\* RenderScene::create_world: every load_from_png(..) is followed by
\* .expect(..), which panics on Err.
create_world(scene) ==
    IF TexturesOf(scene) \subseteq assets THEN "world" ELSE "panic"

\* config.scene.create_world(); Camera::new(..): local to the scheduler.  A
\* panic unwinds run_render_loop.
SchedBuild ==
    /\ uiPanic = "none"
    /\ UNCHANGED geomVars
    /\ schedPc = "build"
    /\ schedPc' = IF create_world(reqs[gen].scene) = "panic" THEN "panicked" ELSE "spawn"
    /\ UNCHANGED <<reqs, gen, abort_switch, flags, stores, tasks,
                   resLog, consumed, data, saved, uiPanic>>

\* (Mutant: the row tasks are handed the flag of the generation before.)
NewTask_PriorFlag(checker) ==
    [pc |-> "queued", checker |-> checker - 1, l1 |-> "none", l2 |-> "none"]

NewTask(checker) == [pc |-> "queued", checker |-> checker, l1 |-> "none", l2 |-> "none"]

\* thread::spawn(.. into_par_iter().for_each(..)); the handle is dropped, so
\* the scheduler goes straight back to recv().
SchedSpawn ==
    /\ uiPanic = "none"
    /\ UNCHANGED geomVars
    /\ schedPc = "spawn"
    /\ tasks' = [t \in DOMAIN tasks \cup
                        {<<gen, j>> : j \in RowIndices(reqs[gen].image_height)} |->
                    IF t \in DOMAIN tasks THEN tasks[t] ELSE NewTask(abort_switch)]
    /\ schedPc' = "recv"
    /\ UNCHANGED <<reqs, gen, abort_switch, flags, stores,
                   resLog, consumed, data, saved, uiPanic>>

(* ---------- row tasks: the for_each closure ---------- *)
\* if abort_checker.load(SeqCst) { return; }: where the task goes after a load
\* that returned v.  (Mutant: the loaded value is ignored.)
AfterLoad_Ignored(v, next) == next

AfterLoad(v, next) == IF v THEN "aborted" ELSE next

Running == {t \in DOMAIN tasks : tasks[t].pc \in {"sampling", "sending"}}

\* A free worker picks the row up and executes the first abort_checker.load.
TaskCheck1(t) ==
    /\ uiPanic = "none"
    /\ UNCHANGED geomVars
    /\ t \in DOMAIN tasks
    /\ tasks[t].pc = "queued"
    /\ Cardinality(Running) < PoolSize
    /\ LET v == flags[tasks[t].checker] IN
       tasks' = [tasks EXCEPT ![t].l1 = IF v THEN "T" ELSE "F",
                              ![t].pc = AfterLoad(v, "sampling")]
    /\ UNCHANGED <<reqs, gen, schedPc, abort_switch, flags, stores,
                   resLog, consumed, data, saved, uiPanic>>

\* The pixel loop has run (local work); the second abort_checker.load.
TaskCheck2(t) ==
    /\ uiPanic = "none"
    /\ UNCHANGED geomVars
    /\ t \in DOMAIN tasks
    /\ tasks[t].pc = "sampling"
    /\ LET v == flags[tasks[t].checker] IN
       tasks' = [tasks EXCEPT ![t].l2 = IF v THEN "T" ELSE "F",
                              ![t].pc = AfterLoad(v, "sending")]
    /\ UNCHANGED <<reqs, gen, schedPc, abort_switch, flags, stores,
                   resLog, consumed, data, saved, uiPanic>>

\* render_result_tx.send(ImageLine{line_num: j, line_pixels}).ok().unwrap():
\* the send fails, and the task panics, once the receiver has been dropped.
TaskSend(t) ==
    /\ uiPanic = "none"
    /\ UNCHANGED geomVars
    /\ t \in DOMAIN tasks
    /\ tasks[t].pc = "sending"
    /\ IF app = "dropped"
       THEN /\ tasks' = [tasks EXCEPT ![t].pc = "panicked"]
            /\ UNCHANGED resLog
       ELSE /\ resLog' = Append(resLog, ImageLine(t[1], t[2], reqs[t[1]].image_width))
            /\ tasks' = [tasks EXCEPT ![t].pc = "sent"]
    /\ UNCHANGED <<reqs, gen, schedPc, abort_switch, flags, stores,
                   consumed, data, saved, uiPanic>>

(* ---------- consumer: TemplateApp::update / UiData ---------- *)
Blank == <<0, 0>>   \* RGB8{0,0,0} rows of a fresh buffer; lines are <<gen, j>>

\* UiData::new(width, height); gen is the ghost generation of the Reset.
UiDataNew(g, width, height) ==
    [present |-> TRUE, gen |-> g,
     last_render_width |-> width, last_render_height |-> height,
     last_render_lines_received |-> 0,
     last_render_pixels |-> [r \in 0..(height - 1) |-> Blank]]

complete(d) == d.last_render_lines_received = d.last_render_height

\* Which check of store_pixel_line (or of update) fails on this line, if any.
StoreFailure(d, ev) ==
    IF ~d.present THEN "nodata"
    ELSE IF ev.len # d.last_render_width THEN "len"
    ELSE IF ~(d.last_render_lines_received < d.last_render_height) THEN "count"
    ELSE IF ~(ev.line_num < d.last_render_height) THEN "index"
    ELSE "none"

store_pixel_line(d, ev) ==
    [d EXCEPT !.last_render_lines_received = @ + 1,
              !.last_render_pixels[d.last_render_height - ev.line_num - 1] =
                  <<ev.gen, ev.line_num>>]

UiReset ==
    /\ uiPanic = "none"
    /\ app = "running"
    /\ UNCHANGED geomVars
    /\ ResultQueue # <<>>
    /\ LET ev == Head(ResultQueue) IN
       /\ ev.kind = "Reset"
       /\ data' = UiDataNew(ev.gen, ev.image_width, ev.image_height)
    /\ consumed' = consumed + 1
    /\ UNCHANGED <<reqs, gen, schedPc, abort_switch, flags, stores, tasks,
                   resLog, saved, uiPanic>>

UiImageLine ==
    /\ uiPanic = "none"
    /\ app = "running"
    /\ UNCHANGED geomVars
    /\ ResultQueue # <<>>
    /\ LET ev == Head(ResultQueue)
           f == StoreFailure(data, ev)
           d == store_pixel_line(data, ev)
       IN
       /\ ev.kind = "ImageLine"
       /\ IF f # "none"
          THEN /\ uiPanic' = f
               /\ UNCHANGED <<data, saved>>
          ELSE /\ data' = d
               /\ saved' = IF complete(d)
                           THEN Append(saved, [gen |-> d.gen,
                                               height |-> d.last_render_height,
                                               pixels |-> d.last_render_pixels])
                           ELSE saved
               /\ UNCHANGED uiPanic
    /\ consumed' = consumed + 1
    /\ UNCHANGED <<reqs, gen, schedPc, abort_switch, flags, stores, tasks, resLog>>

(* ---------- specification of the render pipeline ---------- *)
\* The texture files of the repository.
TextureFiles == {"textures/earthmap.png"}

PipelineInit ==
    /\ app = "running"
    /\ reqs = <<>>
    /\ gen = 0
    /\ schedPc = "recv"
    /\ abort_switch = 0
    /\ flags = [i \in {0} |-> FALSE]
    /\ stores = [i \in {0} |-> 0]
    /\ tasks = <<>>
    /\ resLog = <<>>
    /\ consumed = 0
    /\ data = NoData
    /\ saved = <<>>
    /\ uiPanic = "none"

RenderInit == PipelineInit /\ assets = TextureFiles

NoValue == [kind |-> "none"]

GeomOff ==
    /\ gPc = "off"
    /\ overflow_checks = FALSE
    /\ world = <<>>
    /\ node = NoValue
    /\ query = NoValue
    /\ hit_bvh = NoValue
    /\ hit_list = NoValue
    /\ boxA = NoValue /\ boxB = NoValue /\ boxC = NoValue
    /\ sbox = NoValue
    /\ times = <<0, 0>>
    /\ bboxes = <<>>

TraceOff ==
    /\ rcPc = "off"
    /\ rcMode = NoValue
    /\ rcRay = NoValue
    /\ rcRec = NoValue
    /\ rcGhost = NoValue
    /\ call = NoValue
    /\ ret = NoValue

Init == RenderInit /\ GeomOff /\ TraceOff

Next ==
    \/ \E cfg \in Configs : trigger_render(cfg)
    \/ SchedRecvReset
    \/ SchedAbort
    \/ SchedBuild
    \/ SchedSpawn
    \/ \E t \in DOMAIN tasks : TaskCheck1(t)
    \/ \E t \in DOMAIN tasks : TaskCheck2(t)
    \/ \E t \in DOMAIN tasks : TaskSend(t)
    \/ UiReset
    \/ UiImageLine

Spec == Init /\ [][Next]_vars

\* Fairness the threads get: the scheduler thread, the pool workers and the
\* UI thread's update loop each keep running while they have something to do.
Fairness ==
    /\ WF_vars(SchedRecvReset) /\ WF_vars(SchedAbort)
    /\ WF_vars(SchedBuild) /\ WF_vars(SchedSpawn)
    /\ \A g \in 1..MaxRequests : \A j \in 0..MaxRows :
          /\ WF_vars(TaskCheck1(<<g, j>>))
          /\ WF_vars(TaskCheck2(<<g, j>>))
          /\ WF_vars(TaskSend(<<g, j>>))
    /\ WF_vars(UiReset) /\ WF_vars(UiImageLine)

FairSpec == Spec /\ Fairness

(* ---------- specification of the process: missing textures, shutdown ---------- *)
\* Requests for 1 x 1 images of either scene.
ProcessConfigs == [image_width : {1}, image_height : {1}, scene : Scenes]

ProcessInit ==
    /\ PipelineInit
    /\ assets \in SUBSET TextureFiles
    /\ GeomOff
    /\ TraceOff

\* TemplateApp is dropped, field by field: render_command_tx, the only
\* sender of commands, goes first.
AppDropTx ==
    /\ uiPanic = "none"
    /\ app = "running"
    /\ app' = "tx_dropped"
    /\ UNCHANGED <<renderVars, shapeVars, traceVars, assets>>

\* Then render_result_rx, the only receiver of results.
AppDropRx ==
    /\ uiPanic = "none"
    /\ app = "tx_dropped"
    /\ app' = "dropped"
    /\ UNCHANGED <<renderVars, shapeVars, traceVars, assets>>

\* What the scheduler does to the flag cells when it leaves the loop:
\* nothing.  (Mutant: it cancels the render in flight.)
FlagsAtExit_Abort(fl, held) == [fl EXCEPT ![held] = TRUE]

FlagsAtExit(fl, held) == fl

\* recv() returned Err(Disconnected): every sender is gone and the queue is
\* empty.  break.
SchedQuit ==
    /\ uiPanic = "none"
    /\ schedPc = "recv"
    /\ app # "running"
    /\ CommandQueue = <<>>
    /\ schedPc' = "exited"
    /\ flags' = FlagsAtExit(flags, abort_switch)
    /\ UNCHANGED <<reqs, gen, abort_switch, stores, tasks,
                   resLog, consumed, data, saved, uiPanic>>
    /\ UNCHANGED geomVars

\* try_recv() returned Err(Disconnected): the queue is empty and every
\* sender of results is gone, the scheduler's and the clone each render
\* thread holds while its rows run.
UiDisconnected ==
    /\ uiPanic = "none"
    /\ app = "running"
    /\ ResultQueue = <<>>
    /\ schedPc \in {"panicked", "exited"}
    /\ InFlight = {}
    /\ uiPanic' = "disconnected"
    /\ UNCHANGED <<reqs, gen, schedPc, abort_switch, flags, stores, tasks,
                   resLog, consumed, data, saved>>
    /\ UNCHANGED geomVars

ProcessNext ==
    \/ \E cfg \in ProcessConfigs : trigger_render(cfg)
    \/ SchedRecvReset
    \/ SchedAbort
    \/ SchedBuild
    \/ SchedSpawn
    \/ SchedQuit
    \/ \E t \in DOMAIN tasks : TaskCheck1(t)
    \/ \E t \in DOMAIN tasks : TaskCheck2(t)
    \/ \E t \in DOMAIN tasks : TaskSend(t)
    \/ UiReset
    \/ UiImageLine
    \/ UiDisconnected
    \/ AppDropTx
    \/ AppDropRx

ProcessSpec == ProcessInit /\ [][ProcessNext]_vars

(* ---------- properties of the render pipeline ---------- *)
IsReset(ev) == ev.kind = "Reset"
IsLine(ev) == ev.kind = "ImageLine"
ResetsSent == SelectSeq(resLog, IsReset)
LinesOf(g) == {k \in 1..Len(resLog) : IsLine(resLog[k]) /\ resLog[k].gen = g}
LinesOfRow(g, j) == {k \in LinesOf(g) : resLog[k].line_num = j}
SchedStep == SchedRecvReset \/ SchedAbort \/ SchedBuild \/ SchedSpawn

\* C1: once the consumer has received the Reset of a generation, it receives
\* no ImageLine produced by an earlier generation.
C1_NoStaleLineAfterReset ==
    \A i, k \in 1..consumed :
        (i < k /\ IsReset(resLog[i]) /\ IsLine(resLog[k]))
            => resLog[k].gen >= resLog[i].gen

\* C2: a row task that read its flag as true at either check has sent no
\* ImageLine and never will; every ImageLine on the channel comes from a task
\* whose two loads both returned false.
C2_AbortObservedNeverSends ==
    /\ \A t \in DOMAIN tasks :
          /\ (tasks[t].l1 = "T" \/ tasks[t].l2 = "T") =>
                (LinesOfRow(t[1], t[2]) = {} /\ tasks[t].pc = "aborted")
          /\ LinesOfRow(t[1], t[2]) # {} =>
                (tasks[t].l1 = "F" /\ tasks[t].l2 = "F")
    /\ \A k \in 1..Len(resLog) :
          IsLine(resLog[k]) => <<resLog[k].gen, resLog[k].line_num>> \in DOMAIN tasks

C2_Witness ==
    /\ \E t \in DOMAIN tasks : tasks[t].l1 = "T"
    /\ \E t \in DOMAIN tasks : tasks[t].l1 = "F" /\ tasks[t].l2 = "T"
    /\ \E t \in DOMAIN tasks : LinesOfRow(t[1], t[2]) # {}

\* C3: the Resets on the result channel are exactly one per processed request,
\* in request order, each with that request's width and height; every
\* ImageLine sits behind the Reset of its own generation; the consumer never
\* meets an ImageLine before a Reset.
C3_ResultStreamShape ==
    /\ Len(ResetsSent) = gen
    /\ \A g \in 1..gen :
          /\ ResetsSent[g].gen = g
          /\ ResetsSent[g].image_width = reqs[g].image_width
          /\ ResetsSent[g].image_height = reqs[g].image_height
    /\ \A k \in 1..Len(resLog) :
          IsLine(resLog[k]) =>
              \E i \in 1..(k - 1) : IsReset(resLog[i]) /\ resLog[i].gen = resLog[k].gen
    /\ uiPanic # "nodata"

C3_Witness ==
    /\ gen = 2
    /\ reqs[1] # reqs[2]
    /\ reqs[2].image_width # reqs[2].image_height
    /\ LinesOf(2) # {}
    /\ consumed = Len(resLog)

\* C4: within one generation every emitted ImageLine has a row index in
\* [0, image_height), exactly image_width pixels, and no row index is emitted
\* twice.
C4_LinesWellFormed ==
    \A k \in 1..Len(resLog) :
        IsLine(resLog[k]) =>
            /\ resLog[k].line_num \in 0..(reqs[resLog[k].gen].image_height - 1)
            /\ resLog[k].len = reqs[resLog[k].gen].image_width
            /\ LinesOfRow(resLog[k].gen, resLog[k].line_num) = {k}

C4_Witness ==
    \E g \in 1..gen :
        /\ reqs[g].image_height >= 2
        /\ Cardinality(LinesOf(g)) = reqs[g].image_height

\* Every row of generation g was emitted exactly once and the consumer holds
\* all of them for the Reset of g.
Covered(g) ==
    /\ \A j \in 0..(reqs[g].image_height - 1) : Cardinality(LinesOfRow(g, j)) = 1
    /\ data.present /\ data.gen = g /\ complete(data)
    /\ \A r \in DOMAIN data.last_render_pixels :
          data.last_render_pixels[r] = <<g, data.last_render_height - 1 - r>>

\* C5: a request that is never superseded eventually has every one of its
\* rows emitted exactly once, and the consumer eventually holds image_height
\* received lines for that request's Reset.
C5_CoverageLiveness ==
    \A g \in 1..MaxRequests : (<>[](gen = g)) => <>(gen = g /\ Covered(g))

\* C6: whenever save_output_to_file is invoked, every row of the buffer holds
\* the line of the render announced by the most recent Reset.
C6_SaveOnlyWhenFullyPopulated ==
    \A s \in 1..Len(saved) :
        \A r \in DOMAIN saved[s].pixels :
            saved[s].pixels[r] = <<saved[s].gen, saved[s].height - 1 - r>>

\* C7: a cancellation flag only ever changes from false to true, the change is
\* the scheduler's store on the flag it held when the next request arrived,
\* each flag is stored to at most once, row tasks never change a flag, and the
\* flag of the latest generation is false.
C7_FlagWrittenOnce ==
    /\ [](/\ flags[abort_switch] = FALSE
          /\ \A i \in DOMAIN flags :
                /\ stores[i] <= 1
                /\ flags[i] = (stores[i] = 1))
    /\ [][\A i \in DOMAIN flags :
            /\ i \in DOMAIN flags'
            /\ flags[i] => flags'[i]
            /\ flags'[i] # flags[i] =>
                  (schedPc = "abort" /\ schedPc' = "build" /\ i = abort_switch
                   /\ tasks' = tasks)]_vars

C7_Witness ==
    /\ gen = 2
    /\ flags[1] = TRUE
    /\ \E t \in DOMAIN tasks : t[1] = 1 /\ tasks[t].pc = "sent"
    /\ \E t \in DOMAIN tasks : t[1] = 2 /\ tasks[t].pc = "sent"

\* C8: the scheduler is never blocked by row tasks: whenever it is inside the
\* handler, or at recv() with a command waiting, its next step can be taken,
\* whatever state the earlier generations' row tasks are in.
C8_SchedulerNeverWaitsForTasks ==
    (uiPanic = "none" /\ (schedPc # "recv" \/ CommandQueue # <<>>))
        => ENABLED SchedStep

C8_Witness ==
    /\ schedPc = "recv"
    /\ gen = 2
    /\ \E t1, t2 \in Running : t1[1] = 1 /\ t2[1] = 2

ResetSentFor(g) == \E k \in 1..Len(resLog) : IsReset(resLog[k]) /\ resLog[k].gen = g
TasksOf(g) == {t \in DOMAIN tasks : t[1] = g}

\* The build of the latest request has run and a texture of its scene did
\* not load.
LoadFailed ==
    /\ gen >= 1
    /\ schedPc \notin {"abort", "build"}
    /\ ~(TexturesOf(reqs[gen].scene) \subseteq assets)

\* C15: after a render request whose scene needs a texture that fails to
\* load, the scheduler is still running and can serve the next request.
C15_LoadFailureIsRecoverable ==
    LoadFailed =>
        /\ schedPc \in {"spawn", "recv", "exited"}
        /\ (uiPanic = "none" /\ schedPc = "recv" /\ CommandQueue # <<>>)
              => ENABLED SchedRecvReset

\* C18: the scheduler handles a request in the order Reset, store(true) into
\* the flag it holds and allocation of a fresh false flag, build, spawn. Each
\* position of the handler shows what has been done and what has not: the
\* Reset of a generation is out as soon as the request is received and never
\* before; the fresh flag exists from "build" on and not at "abort"; the row
\* tasks of the generation exist only once "spawn" is over. The row tasks of
\* a generation read the flag allocated for it, and every earlier flag is
\* true as long as a row task of the generation exists.
C18_HandlerOrder ==
    /\ \A k \in 1..Len(resLog) : IsReset(resLog[k]) => resLog[k].gen <= gen
    /\ (gen >= 1 /\ schedPc \in {"abort", "build", "spawn", "recv"}) => ResetSentFor(gen)
    /\ schedPc = "abort" =>
          /\ abort_switch = gen - 1
          /\ DOMAIN flags = 0..(gen - 1)
          /\ TasksOf(gen) = {}
    /\ schedPc \in {"build", "spawn"} =>
          /\ abort_switch = gen
          /\ DOMAIN flags = 0..gen
          /\ flags[gen - 1] /\ ~flags[gen]
          /\ TasksOf(gen) = {}
    /\ (gen >= 1 /\ schedPc = "recv") =>
          /\ abort_switch = gen
          /\ DOMAIN flags = 0..gen
          /\ TasksOf(gen) = {<<gen, j>> : j \in 0..(reqs[gen].image_height - 1)}
    /\ \A t \in DOMAIN tasks :
          /\ t[1] <= gen
          /\ tasks[t].checker = t[1]
          /\ \A i \in DOMAIN flags : i < t[1] => flags[i]

C18_Witness ==
    /\ schedPc = "recv"
    /\ gen = 2
    /\ flags[1] /\ ~flags[2]
    /\ \E t \in TasksOf(1) : tasks[t].pc = "sampling"
    /\ \E t \in TasksOf(2) : tasks[t].pc = "queued" /\ tasks[t].checker = 2

TaskStep == \E t \in DOMAIN tasks : TaskCheck1(t) \/ TaskCheck2(t) \/ TaskSend(t)

PInf == 1000000          \* f64::INFINITY
NInf == -PInf            \* -f64::INFINITY
NaN == 7777777           \* the NaN of 0.0 / 0.0

IsInf(a) == a = PInf \/ a = NInf
Sign(a) == IF a > 0 THEN 1 ELSE IF a < 0 THEN -1 ELSE 0

\* Comparison operators of f64: every comparison with NaN is false.
FLt(a, b) == a # NaN /\ b # NaN /\ a < b
FGt(a, b) == a # NaN /\ b # NaN /\ a > b
FLe(a, b) == a # NaN /\ b # NaN /\ a <= b

\* f64::min / f64::max: if one argument is NaN the other one is returned.
FMin(a, b) == IF a = NaN THEN b ELSE IF b = NaN THEN a ELSE IF a < b THEN a ELSE b
FMax(a, b) == IF a = NaN THEN b ELSE IF b = NaN THEN a ELSE IF a > b THEN a ELSE b

FNeg(a) == IF a = NaN THEN NaN ELSE -a

FAdd(a, b) ==
    IF a = NaN \/ b = NaN THEN NaN
    ELSE IF IsInf(a) THEN (IF IsInf(b) /\ b # a THEN NaN ELSE a)
    ELSE IF IsInf(b) THEN b
    ELSE a + b

FSub(a, b) == FAdd(a, FNeg(b))

FMul(a, b) ==
    IF a = NaN \/ b = NaN THEN NaN
    ELSE IF IsInf(a) \/ IsInf(b)
         THEN (IF a = 0 \/ b = 0 THEN NaN ELSE Sign(a) * Sign(b) * PInf)
    ELSE a * b

FDiv(a, b) ==
    IF a = NaN \/ b = NaN THEN NaN
    ELSE IF b = 0 THEN (IF a = 0 THEN NaN ELSE Sign(a) * PInf)
    ELSE IF IsInf(a) THEN (IF IsInf(b) THEN NaN ELSE Sign(a) * Sign(b) * PInf)
    ELSE IF IsInf(b) THEN 0
    ELSE a \div b

Axes == 1..3             \* x, y, z  (index 0, 1, 2 of Vec3)

(* ---------- aabb.rs ---------- *)
Aabb(minimum, maximum) == [minimum |-> minimum, maximum |-> maximum]

\* Aabb::hit.  The `let t_min` / `let t_max` inside the loop body shadow the
\* parameters for the rest of that iteration only, so every axis is tested
\* against the caller's range.
AabbAxisMiss(b, r, t_min, t_max, a) ==
    LET q0 == FDiv(FSub(b.minimum[a], r.orig[a]), r.dir[a])
        q1 == FDiv(FSub(b.maximum[a], r.orig[a]), r.dir[a])
        t0 == FMin(q0, q1)
        t1 == FMax(q0, q1)
        lo == FMax(t0, t_min)
        hi == FMin(t1, t_max)
    IN FLe(hi, lo)

AabbHit(b, r, t_min, t_max) ==
    \A a \in Axes : ~AabbAxisMiss(b, r, t_min, t_max, a)

\* (Mutant: the larger corner takes the minimum as well.)
surrounding_box_MinForBig(box0, box1) ==
    Aabb([a \in Axes |-> FMin(box0.minimum[a], box1.minimum[a])],
         [a \in Axes |-> FMin(box0.maximum[a], box1.maximum[a])])

surrounding_box(box0, box1) ==
    Aabb([a \in Axes |-> FMin(box0.minimum[a], box1.minimum[a])],
         [a \in Axes |-> FMax(box0.maximum[a], box1.maximum[a])])

(* ---------- ray.rs / hittable.rs ---------- *)
\* Option<f64>: None and Some(t)
NoTime == <<>>
SomeTime(t) == <<t>>

\* Ray::new(orig, dir, time): tm is time.unwrap_or(0.0)
Ray(orig, dir, time) ==
    [orig |-> orig, dir |-> dir, tm |-> IF time = NoTime THEN 0 ELSE time[1]]

\* Option<HitRecord>: of a HitRecord the distance t and the material it
\* borrows are kept.
None == [hit |-> FALSE]
SomeHit(t, mat) == [hit |-> TRUE, t |-> t, mat |-> mat]

(* ---------- aarect.rs ---------- *)
Pad == 1                 \* the 0.0001 padding of the flat axis, in model units

\* XyRect (flat = 3), XzRect (flat = 2) and YzRect (flat = 1): the plane
\* coordinate k on the flat axis, and [lo, hi] on each of the two others.
\* Every rectangle owns its material, so the material is named by the owner.
Rect(flat, k, lo, hi, mat) ==
    [kind |-> "rect", flat |-> flat, k |-> k, lo |-> lo, hi |-> hi, mat |-> mat]

OtherAxes(flat) == Axes \ {flat}

RectHit(p, r, t_min, t_max) ==
    LET t == FDiv(FSub(p.k, r.orig[p.flat]), r.dir[p.flat])
        at(a) == FAdd(r.orig[a], FMul(t, r.dir[a]))
    IN IF FLt(t, t_min) \/ FGt(t, t_max) THEN None
       ELSE IF \E a \in OtherAxes(p.flat) : FLt(at(a), p.lo[a]) \/ FGt(at(a), p.hi[a])
            THEN None
       ELSE SomeHit(t, p.mat)

RectBoundingBox(p) ==
    Aabb([a \in Axes |-> IF a = p.flat THEN FSub(p.k, Pad) ELSE p.lo[a]],
         [a \in Axes |-> IF a = p.flat THEN FAdd(p.k, Pad) ELSE p.hi[a]])

(* ---------- util.rs ---------- *)
\* An i32 is kept at its full width as two 16-bit limbs: the value is
\* hi * 65536 + lo, with hi in -32768..32767 and lo in 0..65535.
Limb == 65536
HalfLimb == 32768
I32(hi, lo) == [hi |-> hi, lo |-> lo]
I32Of(n) == I32(n \div Limb, n % Limb)
WrapHi(h) == ((h + HalfLimb) % Limb) - HalfLimb
HiFits(h) == -HalfLimb <= h /\ h < HalfLimb

\* k * x and m + x in i32 arithmetic, for an i32 x and a small integer k or m:
\* the wrapped result and whether the exact result left the i32 range.
I32Mul(k, x) ==
    LET raw_lo == k * x.lo
        raw_hi == k * x.hi + (raw_lo \div Limb)
    IN [v |-> I32(WrapHi(raw_hi), raw_lo % Limb), overflow |-> ~HiFits(raw_hi)]

I32Add(m, x) ==
    LET raw_lo == m + x.lo
        raw_hi == x.hi + (raw_lo \div Limb)
    IN [v |-> I32(WrapHi(raw_hi), raw_lo % Limb), overflow |-> ~HiFits(raw_hi)]

\* random_int: min + (max - min) * rand::random::<i32>(), for the draw rnd.
\* With overflow checks the i32 arithmetic panics on overflow, without them
\* it wraps.
random_int(min, max, rnd, checks) ==
    LET prod == I32Mul(max - min, rnd)
        sum == I32Add(min, prod.v)
    IN IF checks /\ (prod.overflow \/ sum.overflow)
       THEN [ok |-> FALSE]
       ELSE [ok |-> TRUE, v |-> sum.v]

\* Values of rand::random::<i32>() the model draws from:
\* 0, 1, -1, 2^30 and i32::MIN.
RandDraws == {I32(0, 0), I32(0, 1), I32(-1, Limb - 1), I32(HalfLimb \div 2, 0),
              I32(-HalfLimb, 0)}

(* ---------- bvh_node.rs ---------- *)
Panic == [kind |-> "panic"]

BvhNode(left, right_maybe, abox) ==
    [kind |-> "bvh", left |-> left, right_maybe |-> right_maybe, abox |-> abox]

NoRight == [kind |-> "none"]

(* ---------- sphere.rs ---------- *)
Sphere(center0, center1, time0, time1, radius, mat) ==
    [kind |-> "sphere", center0 |-> center0, center1 |-> center1,
     time0 |-> time0, time1 |-> time1, radius |-> radius, mat |-> mat]

moving(center0, center1, time0, time1, radius, mat) ==
    Sphere(center0, center1, time0, time1, radius, mat)

stationary(center, radius, mat) == Sphere(center, center, 0, 0, radius, mat)

\* Sphere::center
center(s, time) ==
    IF s.time0 = s.time1 THEN s.center0
    ELSE [a \in Axes |->
            FAdd(s.center0[a],
                 FMul(FDiv(FSub(time, s.time0), FSub(s.time1, s.time0)),
                      FSub(s.center1[a], s.center0[a])))]

SphereBoundingBox(s, time0, time1) ==
    LET c0 == center(s, time0)
        c1 == center(s, time1)
        box0 == Aabb([a \in Axes |-> FSub(c0[a], s.radius)],
                     [a \in Axes |-> FAdd(c0[a], s.radius)])
        box1 == Aabb([a \in Axes |-> FSub(c1[a], s.radius)],
                     [a \in Axes |-> FAdd(c1[a], s.radius)])
    IN surrounding_box(box0, box1)

(* ---------- box3d.rs ---------- *)
\* Of a Box3D the two corners are kept; bounding_box reads nothing else.
Box3D(min, max) == [kind |-> "box3d", min |-> min, max |-> max]

Box3DBoundingBox(b) == Aabb(b.min, b.max)

(* ---------- hittable.rs: HittableList, Translate, RotateY ---------- *)
NoBox == [kind |-> "nobox"]     \* Option<Aabb>::None

HittableList(objects) == [kind |-> "list", objects |-> objects]

Translate(offset, obj) == [kind |-> "translate", offset |-> offset, obj |-> obj]

F64Max == 999999         \* std::f64::MAX; std::f64::MIN is -F64Max

\* The eight corners of bbox rotated about y, in the order of the i, j, k loops.
RotateYCorners(bbox, sin_theta, cos_theta) ==
    [n \in 1..8 |->
        LET i == (n - 1) \div 4
            j == ((n - 1) \div 2) % 2
            k == (n - 1) % 2
            x == FAdd(FMul(i, bbox.maximum[1]), FMul(1 - i, bbox.minimum[1]))
            y == FAdd(FMul(j, bbox.maximum[2]), FMul(1 - j, bbox.minimum[2]))
            z == FAdd(FMul(k, bbox.maximum[3]), FMul(1 - k, bbox.minimum[3]))
            newx == FAdd(FMul(cos_theta, x), FMul(sin_theta, z))
            newz == FAdd(FMul(FNeg(sin_theta), x), FMul(cos_theta, z))
        IN <<newx, y, newz>>]

\* min[c] = min[c].min(t[c]); max[c] = max[c].max(t[c]) over the corners from n on.
RECURSIVE FoldCorners(_, _, _)
FoldCorners(ts, n, acc) ==
    IF n > Len(ts) THEN acc
    ELSE FoldCorners(ts, n + 1,
                     Aabb([c \in Axes |-> FMin(acc.minimum[c], ts[n][c])],
                          [c \in Axes |-> FMax(acc.maximum[c], ts[n][c])]))

\* Translate::bounding_box, given the wrapped object's bounding box b.
TranslateBoundingBox(o, b) ==
    IF b = NoBox THEN NoBox
    ELSE Aabb([a \in Axes |-> FAdd(b.minimum[a], o.offset[a])],
              [a \in Axes |-> FAdd(b.maximum[a], o.offset[a])])

\* Hittable::bounding_box(time0, time1), dispatched on the object.
RECURSIVE BoundingBox(_, _, _)
RECURSIVE ListBoundingBoxUpTo(_, _, _, _)

\* RotateY::new for an angle whose sine and cosine are sin_theta, cos_theta:
\* the bounding box is computed once, from obj.bounding_box(0.0, 1.0).
RotateY(sin_theta, cos_theta, obj) ==
    LET bbox == BoundingBox(obj, 0, 1)
    IN [kind |-> "rotate_y", obj |-> obj,
        sin_theta |-> sin_theta, cos_theta |-> cos_theta,
        bounding_box |->
            IF bbox = NoBox THEN NoBox
            ELSE FoldCorners(RotateYCorners(bbox, sin_theta, cos_theta), 1,
                             Aabb([c \in Axes |-> F64Max],
                                  [c \in Axes |-> -F64Max]))]

\* HittableList::bounding_box: result after the first n objects of the loop.
ListBoundingBoxUpTo(objects, n, time0, time1) ==
    IF n = 0 THEN NoBox
    ELSE LET new_box == BoundingBox(objects[n], time0, time1)
             existing == ListBoundingBoxUpTo(objects, n - 1, time0, time1)
         IN IF new_box = NoBox \/ (n > 1 /\ existing = NoBox) THEN NoBox
            ELSE IF existing # NoBox THEN surrounding_box(existing, new_box)
            ELSE new_box

BoundingBox(o, time0, time1) ==
    IF o.kind = "bvh" THEN o.abox
    ELSE IF o.kind = "rect" THEN RectBoundingBox(o)
    ELSE IF o.kind = "sphere" THEN SphereBoundingBox(o, time0, time1)
    ELSE IF o.kind = "box3d" THEN Box3DBoundingBox(o)
    ELSE IF o.kind = "rotate_y" THEN o.bounding_box
    ELSE IF o.kind = "translate"
         THEN TranslateBoundingBox(o, BoundingBox(o.obj, time0, time1))
    ELSE ListBoundingBoxUpTo(o.objects, Len(o.objects), time0, time1)

\* Option::unwrap on a bounding box (lines 57-61) panics on None.
\* (Mutant: it never panics.)
UnwrapPanics_Never(b) == FALSE

UnwrapPanics(b) == b = NoBox

\* box_compare's two expect(..) on bounding_box(0.0, 0.0) panic on None.
ExpectPanics(a, b) == BoundingBox(a, 0, 0) = NoBox \/ BoundingBox(b, 0, 0) = NoBox

\* objects.sort_by(comparator) for three or more objects: every object is
\* handed to the comparator, so the sort panics if any has no bounding box.
SortPanics(objects) ==
    \E i \in 1..Len(objects) : BoundingBox(objects[i], 0, 0) = NoBox

\* box_compare(a, b, axis) == Ordering::Less
BoxLess(a, b, axis) ==
    BoundingBox(a, 0, 0).minimum[axis] < BoundingBox(b, 0, 0).minimum[axis]

\* match axis { 0 => box_compare_x, 1 => box_compare_y, _ => box_compare_z }
ComparatorAxis(axis) == IF axis = I32Of(0) THEN 1 ELSE IF axis = I32Of(1) THEN 2 ELSE 3

\* objects.sort_by(comparator): a stable sort.
RECURSIVE InsertSorted(_, _, _)
InsertSorted(sorted, o, axis) ==
    IF sorted = <<>> THEN <<o>>
    ELSE IF BoxLess(o, sorted[Len(sorted)], axis)
         THEN Append(InsertSorted(SubSeq(sorted, 1, Len(sorted) - 1), o, axis),
                     sorted[Len(sorted)])
         ELSE Append(sorted, o)

RECURSIVE SortBy(_, _)
SortBy(objects, axis) ==
    IF objects = <<>> THEN <<>>
    ELSE InsertSorted(SortBy(SubSeq(objects, 1, Len(objects) - 1), axis),
                      objects[Len(objects)], axis)

\* (Mutant: the right child is dropped.)
MakeNode_LeftOnly(left, right, time0, time1) ==
    LET lb == BoundingBox(left, time0, time1)
    IN IF UnwrapPanics(lb) THEN Panic ELSE BvhNode(left, NoRight, lb)

\* The node built from the two children (lines 55-68), or Panic when an
\* unwrap fails.
MakeNode(left, right, time0, time1) ==
    LET lb == BoundingBox(left, time0, time1)
        rb == IF right = NoRight THEN NoBox ELSE BoundingBox(right, time0, time1)
    IN IF UnwrapPanics(lb) \/ (right # NoRight /\ UnwrapPanics(rb)) THEN Panic
       ELSE BvhNode(left, right,
                    IF right = NoRight THEN lb ELSE surrounding_box(lb, rb))

\* (Mutant: the second half loses its last object.)
SecondHalf_DropsLast(objects, mid) == SubSeq(objects, mid + 1, Len(objects) - 1)

\* objects.split_off(mid)
SecondHalf(objects, mid) == SubSeq(objects, mid + 1, Len(objects))

\* BvhNode::new: every value the call can return, over the random draws of
\* this call and of the recursive calls; Panic when the call panics.
RECURSIVE BvhNew(_, _, _, _)
BvhNew(objects, time0, time1, checks) ==
    UNION { LET ri == random_int(0, 2, rnd, checks)
                axis == ComparatorAxis(ri.v)
                sorted == SortBy(objects, axis)
                mid == Len(objects) \div 2
            IN IF ~ri.ok THEN {Panic}
               ELSE IF Len(objects) = 0 THEN {Panic}
               ELSE IF Len(objects) = 1
                    THEN {MakeNode(objects[1], NoRight, time0, time1)}
               ELSE IF Len(objects) = 2
                    THEN IF ExpectPanics(objects[1], objects[2]) THEN {Panic}
                         ELSE IF BoxLess(objects[1], objects[2], axis)
                         THEN {MakeNode(objects[1], objects[2], time0, time1)}
                         ELSE {MakeNode(objects[2], objects[1], time0, time1)}
               ELSE IF SortPanics(objects) THEN {Panic}
               ELSE LET ls == BvhNew(SubSeq(sorted, 1, mid), time0, time1, checks)
                        rs == BvhNew(SecondHalf(sorted, mid), time0, time1, checks)
                    IN IF Panic \in ls \cup rs
                       THEN {Panic} \cup {MakeNode(l, rt, time0, time1) :
                                              l \in ls \ {Panic}, rt \in rs \ {Panic}}
                       ELSE {MakeNode(l, rt, time0, time1) : l \in ls, rt \in rs}
          : rnd \in RandDraws }

\* match (hit_left, hit_right) { .. }
NearerHit(hit_left, hit_right) ==
    IF ~hit_left.hit THEN hit_right
    ELSE IF ~hit_right.hit THEN hit_left
    ELSE IF FLt(hit_left.t, hit_right.t) THEN hit_left ELSE hit_right

\* Hittable::hit, dispatched on the object: BvhNode::hit or the rectangle's.
RECURSIVE Hit(_, _, _, _)
Hit(o, r, t_min, t_max) ==
    IF o.kind = "rect" THEN RectHit(o, r, t_min, t_max)
    ELSE IF ~AabbHit(o.abox, r, t_min, t_max) THEN None
    ELSE LET hit_left == Hit(o.left, r, t_min, t_max)
             hit_left_time == IF hit_left.hit THEN hit_left.t ELSE t_max
             hit_right == IF o.right_maybe = NoRight THEN None
                          ELSE Hit(o.right_maybe, r, t_min, hit_left_time)
         IN NearerHit(hit_left, hit_right)

\* HittableList::hit: best_hit after the first n objects of the loop.
RECURSIVE ListHitUpTo(_, _, _, _, _)
ListHitUpTo(objects, n, r, t_min, t_max) ==
    IF n = 0 THEN None
    ELSE LET best_hit == ListHitUpTo(objects, n - 1, r, t_min, t_max)
             new_t_max == IF best_hit.hit THEN best_hit.t ELSE t_max
             new_hit == Hit(objects[n], r, t_min, new_t_max)
         IN IF new_hit.hit THEN new_hit ELSE best_hit

HittableListHit(objects, r, t_min, t_max) ==
    ListHitUpTo(objects, Len(objects), r, t_min, t_max)

(* ---------- inputs of the geometry specifications ---------- *)
MaxObjects == 3          \* objects in the list handed to BvhNode::new

XyRect(x0, x1, y0, y1, k, mat) == Rect(3, k, <<x0, y0, k>>, <<x1, y1, k>>, mat)
XzRect(x0, x1, z0, z1, k, mat) == Rect(2, k, <<x0, k, z0>>, <<x1, k, z1>>, mat)
YzRect(y0, y1, z0, z1, k, mat) == Rect(1, k, <<k, y0, z0>>, <<k, y1, z1>>, mat)

\* The primitives scenes are made of: two coincident rectangles, one behind
\* them, and two that cross them.
Catalog ==
    << XyRect(0, 8, 0, 8, 4, "m1"),
       XyRect(0, 8, 0, 8, 4, "m2"),
       XyRect(4, 12, 0, 8, 8, "m3"),
       YzRect(0, 8, 0, 12, 4, "m4"),
       XzRect(0, 8, 0, 12, 4, "m5") >>

RECURSIVE Arrangements(_, _)
Arrangements(S, n) ==
    IF n = 0 THEN {<<>>}
    ELSE {Append(w, Catalog[i]) : w \in Arrangements(S, n - 1), i \in S}

IsInjective(w) == \A i, j \in 1..Len(w) : i # j => w[i] # w[j]

Worlds ==
    {w \in UNION {Arrangements(1..Len(Catalog), n) : n \in 1..MaxObjects} :
        IsInjective(w)}

RayOrigins == {<<0, 4, 0>>, <<4, 4, 0>>, <<2, 2, 0>>}
RayDirections == {<<0, 0, 1>>, <<1, 0, 1>>, <<1, 1, 1>>, <<-1, 0, 1>>,
                  <<0, 1, 1>>, <<1, 0, 0>>}
Ranges == {<<0, PInf>>, <<0, 4>>, <<0, 6>>, <<4, PInf>>}

Queries == {[r |-> Ray(o, d, NoTime), t_min |-> rg[1], t_max |-> rg[2]] :
               o \in RayOrigins, d \in RayDirections, rg \in Ranges}

\* Corners of the boxes surrounding_box is applied to, and the lattice of
\* all corners their coordinates span.
Corners == {<<0, 0, 0>>, <<2, 0, 2>>, <<0, 2, 2>>, <<2, 2, 0>>, <<2, 2, 2>>}
Coords == {p[a] : p \in Corners, a \in Axes}
Boxes == {Aabb(p, q) : p \in Corners, q \in Corners}
LatticeBoxes == {Aabb(<<x0, y0, z0>>, <<x1, y1, z1>>) :
                    x0 \in Coords, y0 \in Coords, z0 \in Coords,
                    x1 \in Coords, y1 \in Coords, z1 \in Coords}

(* ---------- specification: one BVH build and one hit query ---------- *)
GeomRest ==
    /\ node = NoValue
    /\ query = NoValue
    /\ hit_bvh = NoValue
    /\ hit_list = NoValue
    /\ sbox = NoValue
    /\ bboxes = <<>>
    /\ TraceOff

BvhInit ==
    /\ RenderInit
    /\ gPc = "scene"
    /\ overflow_checks \in BOOLEAN
    /\ world \in Worlds
    /\ boxA = NoValue /\ boxB = NoValue /\ boxC = NoValue
    /\ times = <<0, 0>>
    /\ GeomRest

\* BvhNode::new(world, time0, time1)
BuildBvh ==
    /\ gPc = "scene"
    /\ \E n \in BvhNew(world, times[1], times[2], overflow_checks) :
          /\ node' = n
          /\ gPc' = IF n = Panic THEN "panicked" ELSE "built"
    /\ UNCHANGED <<overflow_checks, world, query, hit_bvh, hit_list,
                   boxA, boxB, boxC, sbox, times, bboxes>>
    /\ UNCHANGED <<renderVars, traceVars, envVars>>

\* The same query answered by the BVH and by a HittableList of the objects.
QueryHit ==
    /\ gPc = "built"
    /\ \E q \in Queries :
          /\ query' = q
          /\ hit_bvh' = Hit(node, q.r, q.t_min, q.t_max)
          /\ hit_list' = HittableListHit(world, q.r, q.t_min, q.t_max)
    /\ gPc' = "queried"
    /\ UNCHANGED <<overflow_checks, world, node, boxA, boxB, boxC, sbox,
                   times, bboxes>>
    /\ UNCHANGED <<renderVars, traceVars, envVars>>

BvhNext == BuildBvh \/ QueryHit

BvhSpec == BvhInit /\ [][BvhNext]_vars

(* ---------- specification: surrounding_box of three boxes ---------- *)
BoxInit ==
    /\ RenderInit
    /\ gPc = "boxes"
    /\ overflow_checks = FALSE
    /\ world = <<>>
    /\ boxA \in Boxes /\ boxB \in Boxes /\ boxC \in Boxes
    /\ times = <<0, 0>>
    /\ GeomRest

JoinBoxes ==
    /\ gPc = "boxes"
    /\ sbox' = [ab |-> surrounding_box(boxA, boxB),
                ba |-> surrounding_box(boxB, boxA),
                aa |-> surrounding_box(boxA, boxA),
                ab_c |-> surrounding_box(surrounding_box(boxA, boxB), boxC),
                a_bc |-> surrounding_box(boxA, surrounding_box(boxB, boxC))]
    /\ gPc' = "joined"
    /\ UNCHANGED <<overflow_checks, world, node, query, hit_bvh, hit_list,
                   boxA, boxB, boxC, times, bboxes>>
    /\ UNCHANGED <<renderVars, traceVars, envVars>>

BoxNext == JoinBoxes

BoxSpec == BoxInit /\ [][BoxNext]_vars

(* ---------- specification: bounding boxes and the BVH built over them ---------- *)
\* The objects scenes are made of: a solid sphere, the hollow-glass sphere of
\* negative radius (ThreeBody), a moving sphere, a rectangle, a box, a
\* translated rotated box (CornelBox), a rotated hollow sphere, a list of two
\* objects, and two objects without a bounding box (an empty list, bare and
\* translated).
Shapes ==
    << stationary(<<0, 0, 0>>, 2, "s1"),
       stationary(<<0, 0, 0>>, -1, "s2"),
       moving(<<0, 0, 0>>, <<0, 2, 0>>, 0, 1, 1, "s3"),
       XyRect(0, 8, 0, 8, 4, "m1"),
       Box3D(<<0, 0, 0>>, <<2, 4, 6>>),
       Translate(<<1, 2, 3>>, RotateY(0, 1, Box3D(<<0, 0, 0>>, <<2, 4, 6>>))),
       RotateY(0, 1, stationary(<<4, 4, 4>>, -1, "s4")),
       HittableList(<<XyRect(0, 8, 0, 8, 4, "m1"), stationary(<<0, 0, 0>>, 2, "s1")>>),
       HittableList(<<>>),
       Translate(<<1, 0, 0>>, HittableList(<<>>)) >>

RECURSIVE ShapeArrangements(_)
ShapeArrangements(n) ==
    IF n = 0 THEN {<<>>}
    ELSE {Append(w, Shapes[i]) : w \in ShapeArrangements(n - 1), i \in DOMAIN Shapes}

ShapeLists ==
    {w \in UNION {ShapeArrangements(n) : n \in 1..MaxObjects} : IsInjective(w)}

\* (time0, time1) of the scenes: 0.0, 0.0 and 0.0, 1.0
TimeRanges == {<<0, 0>>, <<0, 1>>}

BoundsInit ==
    /\ RenderInit
    /\ gPc = "shapes"
    /\ overflow_checks \in BOOLEAN
    /\ world \in ShapeLists
    /\ times \in TimeRanges
    /\ boxA = NoValue /\ boxB = NoValue /\ boxC = NoValue
    /\ GeomRest

\* object.bounding_box(time0, time1) of every object of the list
MeasureBounds ==
    /\ gPc = "shapes"
    /\ bboxes' = [i \in 1..Len(world) |-> BoundingBox(world[i], times[1], times[2])]
    /\ gPc' = "scene"
    /\ UNCHANGED <<overflow_checks, world, node, query, hit_bvh, hit_list,
                   boxA, boxB, boxC, sbox, times>>
    /\ UNCHANGED <<renderVars, traceVars, envVars>>

BoundsNext == MeasureBounds \/ BuildBvh

BoundsSpec == BoundsInit /\ [][BoundsNext]_vars

(***************************************************************************)
(* ray_color: one evaluation, one step per statement that matters.  The    *)
(* geometry is left open: world.hit may miss or hit any object, behind any *)
(* chain of Translate / RotateY wrappers, and a scattered ray may point    *)
(* anywhere.                                                               *)
(***************************************************************************)
MaxDepth == 3            \* largest depth of RayColorMode::Material tried

Materials == {"DiffuseHack", "DiffuseLambertian", "DiffuseLambertianTexture",
              "DiffuseHemispherical", "Metal", "Dielectric", "Isotropic"}

\* RayColorMode
BlockColor == [kind |-> "BlockColor"]
ShadeNormal == [kind |-> "ShadeNormal"]
DepthMode == [kind |-> "Depth"]
Material(depth) == [kind |-> "Material", depth |-> depth]

Modes == {BlockColor, ShadeNormal, DepthMode} \cup {Material(d) : d \in (-1)..MaxDepth}

\* Camera::get_ray: the time is random_double(time0, time1); here for a
\* shutter that is open from 0 to 2.
ShutterTimes == {0, 1}
PrimaryRays == {Ray(<<0, 0, 8>>, <<0, 0, -8>>, SomeTime(tm)) : tm \in ShutterTimes}

\* Where a hit can be, and where a scattered ray can point.
HitPoints == {<<0, 0, 2>>, <<2, 0, 0>>}
ScatterDirections == {<<0, 0, 1>>, <<1, 0, 0>>}

\* Translate::hit: the ray handed to the wrapped object.
TranslateRay_DropsTime(offset, r) ==
    Ray([a \in Axes |-> FSub(r.orig[a], offset[a])], r.dir, NoTime)

TranslateRay(offset, r) ==
    Ray([a \in Axes |-> FSub(r.orig[a], offset[a])], r.dir, SomeTime(r.tm))

\* RotateY::hit: the ray handed to the wrapped object.
RotateYRay(sin_theta, cos_theta, r) ==
    LET ox == FSub(FMul(cos_theta, r.orig[1]), FMul(sin_theta, r.orig[3]))
        oz == FAdd(FMul(sin_theta, r.orig[1]), FMul(cos_theta, r.orig[3]))
        dx == FSub(FMul(cos_theta, r.dir[1]), FMul(sin_theta, r.dir[3]))
        dz == FAdd(FMul(sin_theta, r.dir[1]), FMul(cos_theta, r.dir[3]))
    IN Ray(<<ox, r.orig[2], oz>>, <<dx, r.dir[2], dz>>, SomeTime(r.tm))

\* The wrappers an object of the scenes sits behind, outermost first.
Wrappings == {<<>>, <<"translate">>, <<"rotate_y">>,
              <<"translate", "rotate_y">>, <<"rotate_y", "translate">>}

\* The ray the innermost object is asked about.
RECURSIVE ThroughWrappers(_, _)
ThroughWrappers(chain, r) ==
    IF chain = <<>> THEN r
    ELSE ThroughWrappers(Tail(chain),
                         IF Head(chain) = "translate" THEN TranslateRay(<<1, 2, 3>>, r)
                         ELSE RotateYRay(0, 1, r))

\* HitRecord: the hit point and the material; seen is the ray the object
\* that was hit had been asked about.
HitRecord(p, mat_ptr, seen) == [hit |-> TRUE, p |-> p, mat_ptr |-> mat_ptr, seen |-> seen]

\* world.hit(r, 0.001, INFINITY)
WorldHits(r) ==
    {None} \cup {HitRecord(p, m, ThroughWrappers(ch, r)) :
                    p \in HitPoints, m \in Materials, ch \in Wrappings}

\* Material::scatter of each material: None, or the scattered ray (the
\* attenuation plays no part here).  Metal absorbs when the scattered ray
\* points into the surface; every other material always scatters.
scatter(mat, r_in, rec) ==
    LET rays == {Ray(rec.p, d, SomeTime(r_in.tm)) : d \in ScatterDirections}
    IN IF mat = "Metal" THEN {None} \cup rays ELSE rays

\* RayColorMode::Material { depth: depth - 1 }
\* (Mutant: the depth is handed on unchanged.)
new_depth_Same(depth) == Material(depth)

new_depth(depth) == Material(depth - 1)

RayInit ==
    /\ RenderInit
    /\ gPc = "ray"
    /\ overflow_checks = FALSE
    /\ world = <<>>
    /\ node = NoValue /\ query = NoValue
    /\ hit_bvh = NoValue /\ hit_list = NoValue
    /\ boxA = NoValue /\ boxB = NoValue /\ boxC = NoValue
    /\ sbox = NoValue
    /\ times = <<0, 0>>
    /\ bboxes = <<>>
    /\ rcPc = "call"
    /\ rcMode \in Modes
    /\ rcRay \in PrimaryRays
    /\ rcRec = NoValue
    /\ rcGhost = [mode0 |-> rcMode, tm0 |-> rcRay.tm, calls |-> 1, traces |-> 0,
                  result |-> "none"]
    /\ call = NoValue
    /\ ret = NoValue

\* if let Material { depth } = mode { if depth <= 0 { return Color::zero(); } }
RayColorEnter ==
    /\ rcPc = "call"
    /\ IF rcMode.kind = "Material" /\ rcMode.depth <= 0
       THEN /\ rcPc' = "done"
            /\ rcGhost' = [rcGhost EXCEPT !.result = "black"]
       ELSE /\ rcPc' = "trace"
            /\ UNCHANGED rcGhost
    /\ UNCHANGED <<rcMode, rcRay, rcRec, call, ret>>
    /\ UNCHANGED <<renderVars, shapeVars, envVars>>

\* world.hit(..), the three modes that return at once, and the background.
RayColorTrace ==
    /\ rcPc = "trace"
    /\ \E rec \in WorldHits(rcRay) :
          /\ rcRec' = rec
          /\ rcPc' = IF rec.hit /\ rcMode.kind = "Material" THEN "scatter" ELSE "done"
          /\ rcGhost' = [rcGhost EXCEPT
                            !.traces = @ + 1,
                            !.result = IF ~rec.hit THEN "background"
                                       ELSE IF rcMode.kind = "Material" THEN @
                                       ELSE "shaded"]
    /\ UNCHANGED <<rcMode, rcRay, call, ret>>
    /\ UNCHANGED <<renderVars, shapeVars, envVars>>

\* rec.mat_ptr.scatter(r, &rec): on Some the recursive call, on None emitted.
RayColorScatter ==
    /\ rcPc = "scatter"
    /\ rcGhost.calls <= MaxDepth + 2
    /\ \E scattered \in scatter(rcRec.mat_ptr, rcRay, rcRec) :
          IF scattered = None
          THEN /\ rcPc' = "done"
               /\ rcGhost' = [rcGhost EXCEPT !.result = "emitted"]
               /\ UNCHANGED <<rcMode, rcRay>>
          ELSE /\ rcPc' = "call"
               /\ rcMode' = new_depth(rcMode.depth)
               /\ rcRay' = scattered
               /\ rcGhost' = [rcGhost EXCEPT !.calls = @ + 1]
    /\ UNCHANGED <<rcRec, call, ret>>
    /\ UNCHANGED <<renderVars, shapeVars, envVars>>

RayNext == RayColorEnter \/ RayColorTrace \/ RayColorScatter

RaySpec == RayInit /\ [][RayNext]_vars

(***************************************************************************)
(* One pixel of a row task: the sample loop, Camera::get_ray, Sphere::hit, *)
(* the ShadeNormal arm of ray_color and color_as_rgb8.  A real x is the    *)
(* integer Q * x.  Camera, sphere and random draws are chosen so that      *)
(* every value formed on the way to a hit is a multiple of 1 / Q; a square *)
(* root that is not is rounded down.                                       *)
(***************************************************************************)
Q == 200
QMul(a, b) == (a * b) \div Q
QDiv(a, b) == (a * Q) \div b

\* The largest k with k * k <= n, by Newton's iteration from above.
RECURSIVE SqrtDown(_, _)
SqrtDown(n, k) == IF k * k <= n THEN k ELSE SqrtDown(n, (k + n \div k) \div 2)

\* f64::sqrt
QSqrt(a) == IF a < 0 THEN NaN ELSE SqrtDown(a * Q, 46340)

\* vec3.rs
dot(u, v) == QMul(u[1], v[1]) + QMul(u[2], v[2]) + QMul(u[3], v[3])
length_squared(v) == dot(v, v)
length(v) == QSqrt(length_squared(v))
to_unit(v) == LET inv == QDiv(Q, length(v)) IN [a \in Axes |-> QMul(v[a], inv)]
lerp(t, a, b) == [x \in Axes |-> QMul(Q - t, a[x]) + QMul(t, b[x])]

\* util.rs: rand is the value of rand::random::<f64>()
random_double(min, max, rand) == min + QMul(max - min, rand)
random_double_unit(rand) == random_double(0, Q, rand)

\* Values of rand::random::<f64>(): 0 and 1/2.
UnitDraws == {0, Q \div 2}

\* Values of Vec3::random_in_unit_disk(): points of the unit disk of the
\* x-y plane.
DiskDraws == {<<0, 0, 0>>, <<Q \div 2, 0, 0>>}

\* Camera::get_ray
get_ray(cam, s, t, disk, rand) ==
    LET rd == [a \in Axes |-> QMul(cam.lens_radius, disk[a])]
        offset == [a \in Axes |-> QMul(cam.u[a], rd[1]) + QMul(cam.v[a], rd[2])]
    IN Ray([a \in Axes |-> cam.origin[a] + offset[a]],
           [a \in Axes |-> cam.lower_left_corner[a] + QMul(s, cam.horizontal[a])
                              + QMul(t, cam.vertical[a]) - cam.origin[a] - offset[a]],
           SomeTime(random_double(cam.time0, cam.time1, rand)))

\* HitRecord::new: the record's t, p, normal and front_face.
HitRecordNew(t, r, outward_normal) ==
    LET front_face == dot(r.dir, outward_normal) < 0
    IN [hit |-> TRUE, t |-> t,
        p |-> [x \in Axes |-> r.orig[x] + QMul(r.dir[x], t)],
        front_face |-> front_face,
        normal |-> IF front_face THEN outward_normal
                   ELSE [x \in Axes |-> -outward_normal[x]]]

\* Sphere::hit
SphereHit(s, r, t_min, t_max) ==
    LET c == center(s, r.tm)
        oc == [a \in Axes |-> r.orig[a] - c[a]]
        a == length_squared(r.dir)
        half_b == dot(oc, r.dir)
        cc == length_squared(oc) - QMul(s.radius, s.radius)
        discriminant == QMul(half_b, half_b) - QMul(a, cc)
        sqrtd == QSqrt(discriminant)
        root1 == QDiv((-half_b) - sqrtd, a)
        root2 == QDiv((-half_b) + sqrtd, a)
        out1 == FLt(root1, t_min) \/ FLt(t_max, root1)
        out2 == FLt(root2, t_min) \/ FLt(t_max, root2)
        t == IF out1 THEN root2 ELSE root1
        p == [x \in Axes |-> r.orig[x] + QMul(r.dir[x], t)]
        inv == QDiv(Q, s.radius)
        outward_normal == [x \in Axes |-> QMul(p[x] - c[x], inv)]
    IN IF discriminant < 0 THEN None
       ELSE IF out1 /\ out2 THEN None
       ELSE HitRecordNew(t, r, outward_normal)

\* ray_color as a value, for the modes that return without scattering.  Of
\* t_min = 0.001 only the order against the roots matters: it lies above 0
\* and below 1 / Q, the smallest positive value.
ray_color(r, background, world_node, mode) ==
    IF mode.kind = "Material" /\ mode.depth <= 0 THEN <<0, 0, 0>>
    ELSE LET rec == SphereHit(world_node, r, 1, PInf) IN
         IF rec.hit
         THEN CASE mode.kind = "ShadeNormal" ->
                      [x \in Axes |-> QMul(Q \div 2, rec.normal[x] + Q)]
         ELSE IF background # <<>> THEN background[1]
         ELSE LET unit_direction == to_unit(r.dir)
                  t == QMul(Q \div 2, unit_direction[2] + Q)
              IN lerp(t, <<Q, Q, Q>>, <<Q \div 2, (7 * Q) \div 10, Q>>)

\* One channel of color_as_rgb8: (256.0 * (scale * c).sqrt().clamp(0.0, 0.999))
\* as u8.  The integer part of 256 * sqrt(x) is that of sqrt(65536 * x), and
\* 256 * 0.999 has the integer part 255; a NaN is cast to 0.
Channel(c, scale) ==
    LET x == QMul(scale, c)
    IN IF x < 0 THEN 0
       ELSE LET k == SqrtDown((65536 * x) \div Q, 46340)
            IN IF k > 255 THEN 255 ELSE k

color_as_rgb8(pixel_color, samples_per_pixel) ==
    LET scale == QDiv(Q, samples_per_pixel * Q)
    IN [x \in Axes |-> Channel(pixel_color[x], scale)]

MaxSamples == 2          \* samples_per_pixel ranges over 1..MaxSamples
MaxRenderings == 2       \* renderings of the same pixel that are compared

\* Camera::new for look_from (0, 0, 4), look_at (0, 0, 0), vup (0, 1, 0),
\* focus_dist 4, aperture 0, a viewport of height 3 (vfov = 2 atan(3/2)) and
\* the aspect ratio 1 of a 3 x 3 image.
PixelCamera ==
    [origin |-> <<0, 0, 4 * Q>>,
     lower_left_corner |-> <<-6 * Q, -6 * Q, 0>>,
     horizontal |-> <<12 * Q, 0, 0>>,
     vertical |-> <<0, 12 * Q, 0>>,
     u |-> <<Q, 0, 0>>, v |-> <<0, Q, 0>>, w |-> <<0, 0, Q>>,
     lens_radius |-> 0, time0 |-> 0, time1 |-> 0]

PixelInit ==
    /\ RenderInit
    /\ gPc = "pixel"
    /\ overflow_checks = FALSE
    /\ world = <<>>
    /\ node = NoValue /\ query = NoValue
    /\ hit_bvh = NoValue /\ hit_list = NoValue
    /\ boxA = NoValue /\ boxB = NoValue /\ boxC = NoValue
    /\ sbox = NoValue
    /\ times = <<0, 0>>
    /\ bboxes = <<>>
    /\ rcPc = "off"
    /\ rcMode = NoValue /\ rcRay = NoValue /\ rcRec = NoValue /\ rcGhost = NoValue
    /\ \E i \in 0..2, j \in 0..2, spp \in 1..MaxSamples,
          mode \in {ShadeNormal, Material(0)},
          bg \in {<<>>, << <<0, 0, 0>> >>} :
          call = [i |-> i, j |-> j,
                  config |-> [image_width |-> 3, image_height |-> 3,
                              samples_per_pixel |-> spp, render_mode |-> mode],
                  cam |-> PixelCamera,
                  world |-> [background |-> bg,
                             node |-> stationary(<<0, 0, 0>>, (5 * Q) \div 2, "s1")]]
    /\ ret = [pixels |-> <<>>, pixel_color |-> <<0, 0, 0>>, samples |-> 0]

\* One turn of `for _ in 0..config.samples_per_pixel`, of the first or of the
\* second rendering of the pixel.
PixelSample ==
    /\ gPc = "pixel"
    /\ Len(ret.pixels) < MaxRenderings
    /\ ret.samples < call.config.samples_per_pixel
    /\ \E ru \in UnitDraws, rv \in UnitDraws, disk \in DiskDraws, rt \in UnitDraws :
          LET u == QDiv(call.i * Q + random_double_unit(ru),
                        call.config.image_width * Q - Q)
              v == QDiv(call.j * Q + random_double_unit(rv),
                        call.config.image_height * Q - Q)
              r == get_ray(call.cam, u, v, disk, rt)
              c == ray_color(r, call.world.background, call.world.node,
                             call.config.render_mode)
          IN ret' = [ret EXCEPT !.pixel_color = [x \in Axes |-> @[x] + c[x]],
                                !.samples = @ + 1]
    /\ UNCHANGED <<gPc, call, rcPc, rcMode, rcRay, rcRec, rcGhost>>
    /\ UNCHANGED <<overflow_checks, world, node, query, hit_bvh, hit_list,
                   boxA, boxB, boxC, sbox, times, bboxes>>
    /\ UNCHANGED <<renderVars, envVars>>

\* let rgb8 = color_as_rgb8(pixel_color, config.samples_per_pixel);
\* line_pixels.push(rgb8)
PixelPush ==
    /\ gPc = "pixel"
    /\ Len(ret.pixels) < MaxRenderings
    /\ ret.samples = call.config.samples_per_pixel
    /\ ret' = [pixels |-> Append(ret.pixels,
                                 color_as_rgb8(ret.pixel_color,
                                               call.config.samples_per_pixel)),
               pixel_color |-> <<0, 0, 0>>,
               samples |-> 0]
    /\ UNCHANGED <<gPc, call, rcPc, rcMode, rcRay, rcRec, rcGhost>>
    /\ UNCHANGED <<overflow_checks, world, node, query, hit_bvh, hit_list,
                   boxA, boxB, boxC, sbox, times, bboxes>>
    /\ UNCHANGED <<renderVars, envVars>>

PixelNext == PixelSample \/ PixelPush

PixelSpec == PixelInit /\ [][PixelNext]_vars

(***************************************************************************)
(* Dielectric::scatter, in the same fixed-point numbers.  Incoming         *)
(* directions and normals are built from the 3-4-5 triangle, so that the   *)
(* unit direction, cos_theta and sin_theta are exact.                      *)
(***************************************************************************)
\* Vec3::reflect
reflect(v, n) == LET d == QMul(2 * Q, dot(v, n)) IN [a \in Axes |-> v[a] - QMul(d, n[a])]

\* Vec3::refract, by Snell's law
refract(uv, n, etai_over_etat) ==
    LET neg == [a \in Axes |-> -uv[a]]
        cos_theta == FMin(dot(neg, n), Q)
        r_out_perp == [a \in Axes |-> QMul(etai_over_etat, uv[a] + QMul(cos_theta, n[a]))]
        d == Q - length_squared(r_out_perp)
        k == QSqrt(IF d < 0 THEN -d ELSE d)
    IN [a \in Axes |-> r_out_perp[a] - QMul(k, n[a])]

Dielectric(ir) == [ir |-> ir]

\* f64::powi
RECURSIVE powi(_, _)
powi(x, n) == IF n = 0 THEN Q ELSE QMul(x, powi(x, n - 1))

\* Dielectric::reflectance
reflectance(cosine, ref_idx) ==
    LET r0 == QDiv(Q - ref_idx, Q + ref_idx)
        r0sq == QMul(r0, r0)
    IN r0sq + QMul(Q - r0sq, powi(Q - cosine, 5))

\* let cannot_refract = refraction_ratio * sin_theta > 1.0
\* (Mutant: total internal reflection is never detected.)
cannot_refract_Never(refraction_ratio, sin_theta) == FALSE

cannot_refract(refraction_ratio, sin_theta) ==
    FGt(QMul(refraction_ratio, sin_theta), Q)

\* Dielectric::scatter: Some((attenuation, scattered)); rand is the value
\* random_double(0.0, 1.0) draws.  The fields after scattered record the
\* values scatter computed on the way.
DielectricScatter(self, r_in, rec, rand) ==
    LET attenuation == <<Q, Q, Q>>
        refraction_ratio == IF rec.front_face THEN QDiv(Q, self.ir) ELSE self.ir
        unit_direction == to_unit(r_in.dir)
        cos_theta == FMin(dot([a \in Axes |-> -unit_direction[a]], rec.normal), Q)
        sin_theta == QSqrt(Q - QMul(cos_theta, cos_theta))
        cannot == cannot_refract(refraction_ratio, sin_theta)
        reflects == cannot \/ FGt(reflectance(cos_theta, refraction_ratio),
                                  random_double(0, Q, rand))
        direction == IF reflects THEN reflect(unit_direction, rec.normal)
                     ELSE refract(unit_direction, rec.normal, refraction_ratio)
    IN [some |-> TRUE,
        attenuation |-> attenuation,
        scattered |-> Ray(rec.p, direction, SomeTime(r_in.tm)),
        refraction_ratio |-> refraction_ratio,
        unit_direction |-> unit_direction,
        sin_theta |-> sin_theta,
        cannot_refract |-> cannot]

\* Refractive indices: 1.25 and 2.
Indices == {(5 * Q) \div 4, 2 * Q}

\* Directions of incoming rays, not normalised: along the normal, at the
\* two angles of the 3-4-5 triangle, and grazing.
Incoming ==
    {<<0, 0, -2 * Q>>, <<3 * Q, 0, -4 * Q>>, <<0, -3 * Q, -4 * Q>>,
     <<0, 8 * Q, -6 * Q>>, <<-4 * Q, 0, -3 * Q>>, <<-3 * Q, 0, 0>>}

\* Outward normals of the surface that is hit: the ray arrives from outside
\* or from inside.
OutwardNormals == {<<0, 0, Q>>, <<0, 0, -Q>>}

MaxCalls == 2            \* calls of scatter with the same ray and hit

DielectricInit ==
    /\ RenderInit
    /\ gPc = "dielectric"
    /\ overflow_checks = FALSE
    /\ world = <<>>
    /\ node = NoValue /\ query = NoValue
    /\ hit_bvh = NoValue /\ hit_list = NoValue
    /\ boxA = NoValue /\ boxB = NoValue /\ boxC = NoValue
    /\ sbox = NoValue
    /\ times = <<0, 0>>
    /\ bboxes = <<>>
    /\ rcPc = "off"
    /\ rcMode = NoValue /\ rcRay = NoValue /\ rcRec = NoValue /\ rcGhost = NoValue
    /\ \E ir \in Indices, d \in Incoming, n \in OutwardNormals, tm \in ShutterTimes :
          LET r == Ray(<<-d[1], -d[2], -d[3]>>, d, SomeTime(tm))
          IN call = [self |-> Dielectric(ir), r_in |-> r, rec |-> HitRecordNew(Q, r, n)]
    /\ ret = <<>>

\* rec.mat_ptr.scatter(r, &rec), called again for every ray of a path that
\* meets the surface.
ScatterCall ==
    /\ gPc = "dielectric"
    /\ Len(ret) < MaxCalls
    /\ \E rand \in UnitDraws :
          ret' = Append(ret, [rand |-> rand,
                              out |-> DielectricScatter(call.self, call.r_in,
                                                        call.rec, rand)])
    /\ UNCHANGED <<gPc, call, rcPc, rcMode, rcRay, rcRec, rcGhost>>
    /\ UNCHANGED <<overflow_checks, world, node, query, hit_bvh, hit_list,
                   boxA, boxB, boxC, sbox, times, bboxes>>
    /\ UNCHANGED <<renderVars, envVars>>

DielectricNext == ScatterCall

DielectricSpec == DielectricInit /\ [][DielectricNext]_vars

(* ---------- specification: one Aabb::hit query ---------- *)
\* Rays that start beside, below and above the boxes of Boxes.
SlabOrigins == {<<-2, 1, -2>>, <<1, 1, -2>>, <<0, 4, 0>>, <<1, 1, 1>>}

SlabQueries == {[r |-> Ray(o, d, NoTime), t_min |-> rg[1], t_max |-> rg[2]] :
                   o \in SlabOrigins, d \in RayDirections, rg \in Ranges}

SlabInit ==
    /\ RenderInit
    /\ gPc = "box"
    /\ overflow_checks = FALSE
    /\ world = <<>>
    /\ boxA \in {b \in Boxes : \A a \in Axes : b.minimum[a] <= b.maximum[a]}
    /\ boxB = NoValue /\ boxC = NoValue
    /\ times = <<0, 0>>
    /\ node = NoValue
    /\ query \in SlabQueries
    /\ hit_bvh = NoValue
    /\ hit_list = NoValue
    /\ sbox = NoValue
    /\ bboxes = <<>>
    /\ rcPc = "off"
    /\ rcMode = NoValue /\ rcRay = NoValue /\ rcRec = NoValue /\ rcGhost = NoValue
    /\ call = NoValue
    /\ ret = <<>>

\* self.abox.hit(r, t_min, t_max)
AabbQuery ==
    /\ gPc = "box"
    /\ ret' = <<AabbHit(boxA, query.r, query.t_min, query.t_max)>>
    /\ gPc' = "tested"
    /\ UNCHANGED <<call, rcPc, rcMode, rcRay, rcRec, rcGhost>>
    /\ UNCHANGED <<overflow_checks, world, node, query, hit_bvh, hit_list,
                   boxA, boxB, boxC, sbox, times, bboxes>>
    /\ UNCHANGED <<renderVars, envVars>>

SlabNext == AabbQuery

SlabSpec == SlabInit /\ [][SlabNext]_vars

(***************************************************************************)
(* BvhNode::new call by call.  `call` is the stack of the calls that are    *)
(* pending: a frame at "entry" is a call that has not started, with the    *)
(* list it was handed; a frame at "join" is a call whose two recursive      *)
(* calls are pending above it and that goes on at line 55 once they have    *)
(* returned.  `ret` holds what the call entered last drew and found.        *)
(***************************************************************************)
MaxBuild == 6            \* objects in the list handed to the top-level call

\* let mid = objects.len() / 2
\* (Mutant: the list is cut at a quarter.)
SplitIndex_Quarter(size) == size \div 4

SplitIndex(size) == size \div 2

\* A call of BvhNode::new(objects, ..): parent is None for the call the
\* scene makes and Some(len) for a call made at line 51 or 52 by a call that
\* holds len objects.
EntryFrame(objects, parent) == [pc |-> "entry", objects |-> objects, parent |-> parent]
JoinFrame == [pc |-> "join"]

\* The rectangles lists are cut from, in an order that is sorted along no axis.
BuildPool == [i \in 1..(MaxBuild + 1) |-> Catalog[((3 * i) % Len(Catalog)) + 1]]

\* Lists of 0..MaxBuild objects.
BuildLists ==
    {SubSeq(BuildPool, a, b) : a \in {1, 2}, b \in 0..(MaxBuild + 1)}

BuildInit ==
    /\ RenderInit
    /\ gPc = "new"
    /\ overflow_checks \in BOOLEAN
    /\ world \in {w \in BuildLists : Len(w) <= MaxBuild}
    /\ node = NoValue /\ query = NoValue
    /\ hit_bvh = NoValue /\ hit_list = NoValue
    /\ boxA = NoValue /\ boxB = NoValue /\ boxC = NoValue
    /\ sbox = NoValue
    /\ times = <<0, 0>>
    /\ bboxes = <<>>
    /\ rcPc = "off"
    /\ rcMode = NoValue /\ rcRay = NoValue /\ rcRec = NoValue /\ rcGhost = NoValue
    /\ call = <<EntryFrame(world, <<>>)>>
    /\ ret = <<>>

\* What stops the call before it returns or recurses: the overflow check in
\* random_int, the assertion of line 30, an expect of box_compare or an
\* unwrap of lines 57-61; "none" if nothing does.
Failure(objects, ri) ==
    LET size == Len(objects)
    IN IF ~ri.ok THEN "overflow"
       ELSE IF size = 0 THEN "assert"
       ELSE IF size = 1
            THEN (IF MakeNode(objects[1], NoRight, times[1], times[2]) = Panic
                  THEN "unwrap" ELSE "none")
       ELSE IF size = 2
            THEN (IF ExpectPanics(objects[1], objects[2]) THEN "expect"
                  ELSE IF MakeNode(objects[1], objects[2], times[1], times[2]) = Panic
                       THEN "unwrap" ELSE "none")
       ELSE IF SortPanics(objects) THEN "expect" ELSE "none"

\* Lines 19-53 of the call on top of the stack: the draw of the axis, the
\* assertion, and either the leaf arms (the call returns) or the sort, the
\* split and the two recursive calls.
NewEnter ==
    /\ gPc = "new"
    /\ call # <<>>
    /\ call[1].pc = "entry"
    /\ \E rnd \in RandDraws :
          LET objects == call[1].objects
              size == Len(objects)
              ri == random_int(0, 2, rnd, overflow_checks)
              failure == Failure(objects, ri)
              sorted == SortBy(objects, ComparatorAxis(ri.v))
              mid == SplitIndex(size)
          IN /\ ret' = <<[rnd |-> rnd, axis |-> ri, size |-> size,
                          parent |-> call[1].parent, failure |-> failure]>>
             /\ IF failure # "none"
                THEN gPc' = "panicked" /\ UNCHANGED call
                ELSE IF size <= 2
                THEN /\ call' = Tail(call)
                     /\ gPc' = IF Tail(call) = <<>> THEN "done" ELSE "new"
                ELSE /\ call' = <<EntryFrame(SubSeq(sorted, 1, mid), <<size>>),
                                  EntryFrame(SecondHalf(sorted, mid), <<size>>),
                                  JoinFrame>> \o Tail(call)
                     /\ gPc' = "new"
    /\ UNCHANGED <<rcPc, rcMode, rcRay, rcRec, rcGhost>>
    /\ UNCHANGED <<overflow_checks, world, node, query, hit_bvh, hit_list,
                   boxA, boxB, boxC, sbox, times, bboxes>>
    /\ UNCHANGED <<renderVars, envVars>>

\* Lines 55-68 of a call whose recursive calls have returned: both children
\* are nodes, which always have a box, and the call returns.
NewJoin ==
    /\ gPc = "new"
    /\ call # <<>>
    /\ call[1].pc = "join"
    /\ call' = Tail(call)
    /\ gPc' = IF Tail(call) = <<>> THEN "done" ELSE "new"
    /\ UNCHANGED <<ret, rcPc, rcMode, rcRay, rcRec, rcGhost>>
    /\ UNCHANGED <<overflow_checks, world, node, query, hit_bvh, hit_list,
                   boxA, boxB, boxC, sbox, times, bboxes>>
    /\ UNCHANGED <<renderVars, envVars>>

BuildNext == NewEnter \/ NewJoin

BuildSpec == BuildInit /\ [][BuildNext]_vars

(***************************************************************************)
(* perlin.rs: the three permutation tables of Perlin::new, one iteration   *)
(* of permute per step, and the table indices of one sample_noise call.    *)
(* `call` holds the tables that are finished, the table being permuted and *)
(* the loop index; `ret` holds what the last step drew and computed.  The   *)
(* gradient vectors of ran_float take no part in an index and are left out. *)
(***************************************************************************)
POINT_COUNT == 256

\* (0..POINT_COUNT).enumerate() pushed as i32: the table before permute.
IdentityTable == [n \in 0..(POINT_COUNT - 1) |-> n]

\* p.swap(i, target)
Swap(p, i, target) == [p EXCEPT ![i] = p[target], ![target] = p[i]]

\* `x as usize` of an i32 is an index of a table of POINT_COUNT entries only
\* for 0 <= x < POINT_COUNT: a negative x becomes an index near 2^64.
InTable(x) == x.hi = 0 /\ x.lo < POINT_COUNT

\* x & 255 of an i32 in two's complement: the low byte.
And255(x) == x.lo % 256

\* a ^ b of two non-negative integers.
RECURSIVE Xor(_, _)
Xor(a, b) ==
    IF a = 0 THEN b
    ELSE IF b = 0 THEN a
    ELSE 2 * Xor(a \div 2, b \div 2) + ((a + b) % 2)

\* The draws of rand::random::<i32>() in permute: those of RandDraws and 2.
PermDraws == RandDraws \cup {I32(0, 2)}

\* The iterations of the first table's permute whose draw is left open;
\* every other iteration of the three loops repeats one draw, 0 or 1.
FreeIterations == {POINT_COUNT - 1, POINT_COUNT - 2, 100}
RepeatedDraws == {I32(0, 0), I32(0, 1)}

\* p.x.floor() as i32, a saturating cast: i32::MIN, -257, -1, 0, 255 and
\* i32::MAX.
LatticeCoordinates ==
    {I32(-HalfLimb, 0), I32(-1, Limb - 257), I32(-1, Limb - 1), I32(0, 0),
     I32(0, 255), I32(HalfLimb - 1, Limb - 1)}

PerlinInit ==
    /\ RenderInit
    /\ gPc = "permute"
    /\ overflow_checks \in BOOLEAN
    /\ world = <<>>
    /\ node = NoValue /\ query = NoValue
    /\ hit_bvh = NoValue /\ hit_list = NoValue
    /\ boxA = NoValue /\ boxB = NoValue /\ boxC = NoValue
    /\ sbox = NoValue
    /\ times = <<0, 0>>
    /\ bboxes = <<>>
    /\ rcPc = "off"
    /\ rcMode = NoValue /\ rcRay = NoValue /\ rcRec = NoValue /\ rcGhost = NoValue
    /\ \E d \in RepeatedDraws :
          call = [perm |-> <<>>, p |-> IdentityTable, i |-> POINT_COUNT - 1,
                  repeated |-> d]
    /\ ret = <<>>

\* One iteration of the loop of permute (lines 41-44); after the iteration
\* i = 0 perlin_generate_perm returns the table and Perlin::new goes on to
\* the next one, or is done after perm_z.
PermuteStep ==
    /\ gPc = "permute"
    /\ \E rnd \in IF call.perm = <<>> /\ call.i \in FreeIterations
                  THEN PermDraws ELSE {call.repeated} :
          LET target == random_int(0, call.i, rnd, overflow_checks)
              swapped == Swap(call.p, call.i, target.v.lo)
              finished == Append(call.perm, swapped)
          IN /\ ret' = <<[kind |-> "swap", i |-> call.i, rnd |-> rnd,
                          target |-> target]>>
             /\ IF ~target.ok \/ ~InTable(target.v)
                THEN gPc' = "panicked" /\ UNCHANGED call
                ELSE IF call.i > 0
                THEN /\ call' = [call EXCEPT !.p = swapped, !.i = call.i - 1]
                     /\ gPc' = "permute"
                ELSE /\ call' = [call EXCEPT !.perm = finished, !.p = IdentityTable,
                                             !.i = POINT_COUNT - 1]
                     /\ gPc' = IF Len(finished) = 3 THEN "built" ELSE "permute"
    /\ UNCHANGED <<rcPc, rcMode, rcRay, rcRec, rcGhost>>
    /\ UNCHANGED <<overflow_checks, world, node, query, hit_bvh, hit_list,
                   boxA, boxB, boxC, sbox, times, bboxes>>
    /\ UNCHANGED <<renderVars, envVars>>

\* The eight corners of the lattice cell: di, dj, dk in 0..1
CellCorners == {<<di, dj, dk>> : di \in {0, 1}, dj \in {0, 1}, dk \in {0, 1}}

\* Lines 69-85 of sample_noise for the cell i, j, k: the index into each
\* permutation table and the index into ran_float of every corner.
SampleNoise ==
    /\ gPc = "built"
    /\ \E i \in LatticeCoordinates, j \in LatticeCoordinates, k \in LatticeCoordinates :
          LET at(c) == <<I32Add(c[1], i), I32Add(c[2], j), I32Add(c[3], k)>>
              overflow == \E c \in CellCorners, a \in 1..3 : at(c)[a].overflow
              lattice(c) == [a \in 1..3 |-> And255(at(c)[a].v)]
              idx(c) == Xor(Xor(call.perm[1][lattice(c)[1]], call.perm[2][lattice(c)[2]]),
                            call.perm[3][lattice(c)[3]])
          IN IF overflow_checks /\ overflow
             THEN /\ gPc' = "panicked"
                  /\ ret' = <<[kind |-> "overflow", cell |-> <<i, j, k>>]>>
             ELSE /\ gPc' = "sampled"
                  /\ ret' = <<[kind |-> "noise", cell |-> <<i, j, k>>,
                               lattice |-> UNION {{lattice(c)[a] : a \in 1..3} :
                                                    c \in CellCorners},
                               idx |-> {idx(c) : c \in CellCorners}]>>
    /\ UNCHANGED <<call, rcPc, rcMode, rcRay, rcRec, rcGhost>>
    /\ UNCHANGED <<overflow_checks, world, node, query, hit_bvh, hit_list,
                   boxA, boxB, boxC, sbox, times, bboxes>>
    /\ UNCHANGED <<renderVars, envVars>>

PerlinNext == PermuteStep \/ SampleNoise

PerlinSpec == PerlinInit /\ [][PerlinNext]_vars

(***************************************************************************)
(* UiData::store_pixel_line pixel by pixel.  Two consumers are handed the   *)
(* lines of one render of `call`, each in an order of its own; `ret` holds *)
(* the UiData of both and the rows each has stored so far.                  *)
(***************************************************************************)
\* The pixel x of the line a row task sends for row j: no two are alike and
\* none is the black of a fresh buffer.
LinePixel(j, x) == <<j + 1, x + 1>>
LinePixels(j, width) == [x \in 0..(width - 1) |-> LinePixel(j, x)]

\* UiData::new(width, height) with its buffer of width * height pixels
PixelData(width, height) ==
    [present |-> TRUE,
     last_render_width |-> width, last_render_height |-> height,
     last_render_lines_received |-> 0,
     last_render_pixels |-> [n \in 0..(width * height - 1) |-> Blank]]

\* let line_num = self.last_render_height - line_num - 1
\* (Mutant: the row index is used as it comes.)
BufferRow_Unflipped(d, line_num) == line_num

BufferRow(d, line_num) == d.last_render_height - line_num - 1

\* offset_start..offset_end of line 66
OffsetRange(d, line_num) ==
    LET offset_start == BufferRow(d, line_num) * d.last_render_width
        offset_end == offset_start + d.last_render_width
    IN offset_start..(offset_end - 1)

\* Lines 61-67 of store_pixel_line: the counter and copy_from_slice.
StorePixels(d, line_num, line_pixels) ==
    LET offset_start == BufferRow(d, line_num) * d.last_render_width
    IN [d EXCEPT !.last_render_lines_received = @ + 1,
                 !.last_render_pixels =
                     [n \in DOMAIN @ |->
                         IF n \in OffsetRange(d, line_num)
                         THEN line_pixels[n - offset_start] ELSE @[n]]]

StoreInit ==
    /\ RenderInit
    /\ gPc = "store"
    /\ overflow_checks = FALSE
    /\ world = <<>>
    /\ node = NoValue /\ query = NoValue
    /\ hit_bvh = NoValue /\ hit_list = NoValue
    /\ boxA = NoValue /\ boxB = NoValue /\ boxC = NoValue
    /\ sbox = NoValue
    /\ times = <<0, 0>>
    /\ bboxes = <<>>
    /\ rcPc = "off"
    /\ rcMode = NoValue /\ rcRay = NoValue /\ rcRec = NoValue /\ rcGhost = NoValue
    /\ call \in Configs
    /\ ret = [c \in {"a", "b"} |->
                 [data |-> PixelData(call.image_width, call.image_height),
                  rows |-> <<>>]]

\* Consumer c takes the line of a row it has not had yet.
StoreLine(c) ==
    /\ gPc = "store"
    /\ \E j \in RowIndices(call.image_height) :
          LET d == ret[c].data
              line_pixels == LinePixels(j, call.image_width)
              ev == [len |-> call.image_width, line_num |-> j]
          IN /\ \A n \in DOMAIN ret[c].rows : ret[c].rows[n] # j
             /\ IF StoreFailure(d, ev) # "none"
                THEN gPc' = "panicked" /\ UNCHANGED ret
                ELSE /\ ret' = [ret EXCEPT ![c] = [data |-> StorePixels(d, j, line_pixels),
                                                   rows |-> Append(ret[c].rows, j)]]
                     /\ UNCHANGED gPc
    /\ UNCHANGED <<call, rcPc, rcMode, rcRay, rcRec, rcGhost>>
    /\ UNCHANGED <<overflow_checks, world, node, query, hit_bvh, hit_list,
                   boxA, boxB, boxC, sbox, times, bboxes>>
    /\ UNCHANGED <<renderVars, envVars>>

StoreNext == StoreLine("a") \/ StoreLine("b")

StoreSpec == StoreInit /\ [][StoreNext]_vars

(* ---------- properties of the geometry ---------- *)
\* C9: the BVH built from a non-empty list of bounded primitives answers every
\* hit query as the linear scan over the same list does: a hit exactly when
\* the scan hits, with the same t and the same material.
C9_BvhEqualsLinearScan ==
    gPc = "queried" => hit_bvh = hit_list

\* Box outer contains box inner on every axis.
Contains(outer, inner) ==
    \A a \in Axes : /\ outer.minimum[a] <= inner.minimum[a]
                    /\ inner.maximum[a] <= outer.maximum[a]

\* C10: surrounding_box(A, B) contains A and B, every box that contains both
\* contains it, and it is commutative, idempotent and associative.
C10_SurroundingBoxIsLeastUpperBound ==
    gPc = "joined" =>
        /\ Contains(sbox.ab, boxA) /\ Contains(sbox.ab, boxB)
        /\ \A c \in LatticeBoxes :
              (Contains(c, boxA) /\ Contains(c, boxB)) => Contains(c, sbox.ab)
        /\ sbox.ab = sbox.ba
        /\ sbox.aa = boxA
        /\ sbox.ab_c = sbox.a_bc

C10_Witness ==
    /\ gPc = "joined"
    /\ sbox.ab # boxA /\ sbox.ab # boxB
    /\ sbox.ab_c # sbox.ab
    /\ \E a \in Axes : boxA.minimum[a] < boxB.minimum[a]
    /\ \E a \in Axes : boxB.minimum[a] < boxA.minimum[a]

\* Box b has min[i] <= max[i] on all three axes.
WellFormed(b) == \A a \in Axes : FLe(b.minimum[a], b.maximum[a])

\* The boxes cached in the nodes of a tree.
RECURSIVE NodeBoxes(_)
NodeBoxes(n) ==
    IF n.kind # "bvh" THEN {}
    ELSE {n.abox} \cup NodeBoxes(n.left)
         \cup (IF n.right_maybe = NoRight THEN {} ELSE NodeBoxes(n.right_maybe))

\* C11: every box returned by bounding_box of a sphere, rectangle, Box3D,
\* Translate, RotateY or HittableList, and every box cached in a BVH node,
\* has min[i] <= max[i] on all three axes.
C11_BoundingBoxesWellFormed ==
    /\ \A i \in DOMAIN bboxes : bboxes[i] # NoBox => WellFormed(bboxes[i])
    /\ gPc = "built" => \A b \in NodeBoxes(node) : WellFormed(b)

\* C12: BvhNode::new never returns a tree for a list in which some object
\* has no bounding box, whatever the size of the list and the position of
\* that object: the call panics.
C12_UnboundedObjectIsFatal ==
    (\E i \in DOMAIN bboxes : bboxes[i] = NoBox) =>
        /\ gPc \in {"scene", "panicked"}
        /\ node \in {NoValue, Panic}

C12_Witness ==
    /\ gPc = "panicked"
    /\ ~overflow_checks
    /\ Len(world) = 3
    /\ bboxes[1] # NoBox /\ bboxes[2] = NoBox /\ bboxes[3] # NoBox

\* C13: in Material mode with depth d, ray_color returns black without
\* tracing when d <= 0; for d >= 1 it makes at most d recursive calls, each
\* with the depth one lower, traces at most d times and can always take its
\* next step until it returns; in the other three modes it never recurses.
C13_RayColorDepthBounded ==
    rcPc # "off" =>
        LET m0 == rcGhost.mode0 IN
        /\ (m0.kind = "Material" /\ m0.depth <= 0) =>
              /\ rcGhost.traces = 0 /\ rcGhost.calls = 1
              /\ rcPc = "done" => rcGhost.result = "black"
        /\ (m0.kind = "Material" /\ m0.depth >= 1) =>
              /\ rcGhost.calls - 1 <= m0.depth
              /\ rcGhost.traces <= m0.depth
              /\ rcMode = Material(m0.depth - (rcGhost.calls - 1))
        /\ m0.kind # "Material" =>
              /\ rcGhost.calls = 1 /\ rcGhost.traces <= 1 /\ rcMode = m0
        /\ rcPc # "done" => ENABLED RayNext

C13_Witness ==
    /\ rcPc = "done"
    /\ rcGhost.mode0 = Material(MaxDepth)
    /\ rcGhost.calls = MaxDepth + 1
    /\ rcGhost.traces = MaxDepth
    /\ rcGhost.result = "black"

\* C16: the ray every material's scatter builds carries the time of the
\* incoming ray, Translate and RotateY hand the incoming ray's time to the
\* object they wrap, and so the time of a path is the same at every bounce.
C16_TimePropagates ==
    /\ [](rcPc # "off" =>
            /\ rcRay.tm = rcGhost.tm0
            /\ (rcRec # NoValue /\ rcRec.hit) => rcRec.seen.tm = rcGhost.tm0)
    /\ [][(rcPc = "scatter" /\ rcPc' = "call") =>
            (rcRay'.tm = rcRay.tm /\ rcRay'.orig = rcRec.p)]_vars

C16_Witness ==
    /\ rcPc = "scatter"
    /\ rcGhost.tm0 = 1
    /\ rcGhost.calls = 3
    /\ rcRay.orig # <<0, 0, 8>>
    /\ rcRec.mat_ptr = "Isotropic"
    /\ rcRec.seen.orig # rcRay.orig

(* ---------- properties of one pixel ---------- *)
\* C14: with samples_per_pixel = 1 and the ShadeNormal mode, two renderings
\* of the pixel the centre of a lone sphere projects to give the same RGB
\* value, whatever the random draws.
C14_NormalPixelDeterministic ==
    (/\ gPc = "pixel"
     /\ call.config.samples_per_pixel = 1
     /\ call.config.render_mode = ShadeNormal
     /\ call.i = 1 /\ call.j = 1
     /\ Len(ret.pixels) >= 2)
        => ret.pixels[1] = ret.pixels[2]

(* ---------- properties of materials ---------- *)
\* C17: Dielectric::scatter always returns a ray; whenever refraction_ratio *
\* sin_theta > 1 the ray has the reflected direction, whatever the random
\* draw; and at normal incidence (sin_theta = 0) the total-internal-
\* reflection condition is false.
C17_DielectricScatter ==
    gPc = "dielectric" =>
        \A k \in DOMAIN ret :
            LET o == ret[k].out IN
            /\ o.some
            /\ o.scattered.orig = call.rec.p
            /\ FGt(QMul(o.refraction_ratio, o.sin_theta), Q) =>
                  o.scattered.dir = reflect(o.unit_direction, call.rec.normal)
            /\ o.sin_theta = 0 => ~o.cannot_refract

C17_Witness ==
    /\ gPc = "dielectric"
    /\ Len(ret) = 2
    /\ ret[1].rand # ret[2].rand
    /\ ~call.rec.front_face
    /\ call.r_in.dir = <<3 * Q, 0, -4 * Q>>
    /\ ret[1].out.cannot_refract /\ ret[2].out.cannot_refract
    /\ ret[1].out.scattered.dir = <<(3 * Q) \div 5, 0, (4 * Q) \div 5>>
    /\ ret[2].out.scattered = ret[1].out.scattered

(* ---------- properties of Aabb::hit ---------- *)
\* The slab test that tightens one interval over the axes a, a + 1, ..: false
\* as soon as the interval is empty, true when it survives the last axis.
RECURSIVE SlabTest(_, _, _, _, _)
SlabTest(b, r, t_min, t_max, a) ==
    IF a > 3 THEN TRUE
    ELSE LET q0 == FDiv(FSub(b.minimum[a], r.orig[a]), r.dir[a])
             q1 == FDiv(FSub(b.maximum[a], r.orig[a]), r.dir[a])
             lo == FMax(FMin(q0, q1), t_min)
             hi == FMin(FMax(q0, q1), t_max)
         IN IF FLe(hi, lo) THEN FALSE ELSE SlabTest(b, r, lo, hi, a + 1)

\* C20: Aabb::hit returns true exactly when the caller's [t_min, t_max],
\* narrowed by each of the three axes in turn, is still non-empty after the
\* last axis.
C20_AabbHitIsCumulative ==
    gPc = "tested" => ret[1] = SlabTest(boxA, query.r, query.t_min, query.t_max, 1)

(* ---------- properties of the BVH ---------- *)
\* The BVH nodes of a tree, and the primitives at the leaves of a subtree.
RECURSIVE NodesOf(_)
NodesOf(n) ==
    IF n.kind # "bvh" THEN {}
    ELSE {n} \cup NodesOf(n.left)
         \cup (IF n.right_maybe = NoRight THEN {} ELSE NodesOf(n.right_maybe))

RECURSIVE PrimitivesOf(_)
PrimitivesOf(n) ==
    IF n.kind # "bvh" THEN {n}
    ELSE PrimitivesOf(n.left)
         \cup (IF n.right_maybe = NoRight THEN {} ELSE PrimitivesOf(n.right_maybe))

\* The box a node caches is the join of its children's boxes and contains
\* the box of every primitive below it.
BoxesEnclose ==
    gPc \in {"built", "queried"} =>
        \A n \in NodesOf(node) :
            /\ n.abox = IF n.right_maybe = NoRight
                        THEN BoundingBox(n.left, times[1], times[2])
                        ELSE surrounding_box(BoundingBox(n.left, times[1], times[2]),
                                             BoundingBox(n.right_maybe, times[1], times[2]))
            /\ \A p \in PrimitivesOf(n) :
                  Contains(n.abox, BoundingBox(p, times[1], times[2]))

\* C21: the box cached in a BVH node is surrounding_box of its children's
\* boxes (the left child's box when there is no right child), it contains
\* the box of every primitive of the subtree, and a ray that hits a primitive
\* of the subtree within [t_min, t_max] passes the node's own box test.
C21_NodeBoxNeverRejectsHit ==
    /\ BoxesEnclose
    /\ gPc = "queried" =>
          \A n \in NodesOf(node) : \A p \in PrimitivesOf(n) :
              Hit(p, query.r, query.t_min, query.t_max).hit
                  => AabbHit(n.abox, query.r, query.t_min, query.t_max)

\* The primitives at the leaves of a tree, from left to right.
RECURSIVE LeavesOf(_)
LeavesOf(n) ==
    IF n.kind # "bvh" THEN <<n>>
    ELSE LeavesOf(n.left)
         \o (IF n.right_maybe = NoRight THEN <<>> ELSE LeavesOf(n.right_maybe))

Occurrences(objects, o) == Cardinality({i \in DOMAIN objects : objects[i] = o})

\* box.min()[axis] of the object's bounding_box(0.0, 0.0), as box_compare
\* reads it.
MinAlong(o, axis) == BoundingBox(o, 0, 0).minimum[axis]

C23_RightAbsentOnlyForSingleton ==
    gPc \in {"built", "queried"} =>
        /\ (node.right_maybe = NoRight) <=> (Len(world) = 1)
        /\ \A n \in NodesOf(node) :
              /\ n.left # NoRight
              /\ n.left.kind \in {"bvh", "rect"}
              /\ (n.right_maybe = NoRight) <=> (Len(LeavesOf(n)) = 1)
              /\ n.right_maybe # NoRight => n.right_maybe.kind \in {"bvh", "rect"}

C23_Witness ==
    /\ gPc = "built"
    /\ Len(world) = 3
    /\ node.left.kind = "bvh" /\ node.left.right_maybe = NoRight
    /\ node.right_maybe.kind = "bvh" /\ node.right_maybe.right_maybe # NoRight

\* What BvhNode::hit of node n returns for the ray of the query over the
\* range rg, next to what its two children return: the left one over rg, the
\* right one over rg and over the range the code hands it.
Probe(n, rg) ==
    LET r == query.r
        hit_left == Hit(n.left, r, rg[1], rg[2])
        hit_left_time == IF hit_left.hit THEN hit_left.t ELSE rg[2]
    IN [box |-> AabbHit(n.abox, r, rg[1], rg[2]),
        res |-> IF n = node /\ rg = <<query.t_min, query.t_max>>
                THEN hit_bvh ELSE Hit(n, r, rg[1], rg[2]),
        left |-> hit_left,
        right |-> IF n.right_maybe = NoRight THEN None
                  ELSE Hit(n.right_maybe, r, rg[1], hit_left_time),
        right_full |-> IF n.right_maybe = NoRight THEN None
                       ELSE Hit(n.right_maybe, r, rg[1], rg[2])]

\* C24: BvhNode::hit returns None when the node's box is missed.  Otherwise
\* it hits exactly when a child hits within [t_min, t_max]; the hit it
\* returns is the one a child reported, its t lies in [t_min, t_max] and no
\* child has a hit with a smaller t in that range; when both children report
\* the same t, the hit of the right child, probed last, is returned.
C24_BvhHitIsNearest ==
    gPc = "queried" =>
        \A n \in NodesOf(node), rg \in Ranges :
            LET p == Probe(n, rg)
            IN /\ ~p.box => p.res = None
               /\ p.box =>
                    /\ p.res.hit <=> (p.left.hit \/ p.right_full.hit)
                    /\ p.res.hit =>
                          /\ p.res \in {p.left, p.right}
                          /\ FLe(rg[1], p.res.t) /\ FLe(p.res.t, rg[2])
                          /\ p.left.hit => FLe(p.res.t, p.left.t)
                          /\ p.right_full.hit => FLe(p.res.t, p.right_full.t)
                    /\ (p.left.hit /\ p.right.hit /\ p.left.t = p.right.t)
                          => p.res = p.right

(* ---------- properties of BvhNode::new, call by call ---------- *)
\* C25: for every draw of rand::random::<i32>() the axis drawn at line 21 is
\* computed without overflow and is 0, 1 or 2.
C25_AxisInRange ==
    ret # <<>> =>
        /\ ret[1].axis.ok
        /\ ret[1].axis.v \in {I32Of(0), I32Of(1), I32Of(2)}

\* The comparator of the y axis is selected by no draw.
AxisNeverY ==
    (ret # <<>> /\ ret[1].axis.ok) => ComparatorAxis(ret[1].axis.v) # 2

\* The calls that are pending and have not started.
PendingCalls == {i \in DOMAIN call : call[i].pc = "entry"}

\* The work that is left: a pending call over n objects makes at most n - 1
\* calls and n - 2 joins after itself, a join is one step.
RECURSIVE WorkLeft(_)
WorkLeft(stack) ==
    IF stack = <<>> THEN 0
    ELSE WorkLeft(Tail(stack))
         + (IF stack[1].pc = "join" \/ stack[1].objects = <<>> THEN 1
            ELSE 3 * Len(stack[1].objects) - 2)

\* C30: a call made by another call of BvhNode::new is handed a list that is
\* not empty and is shorter than its caller's, and its caller holds three
\* objects or more.  The assertion of line 30 fails in no call that another
\* call made: it fails only for an empty list handed in by the scene, and an
\* empty list never yields a tree.  The build comes to an end: while it has
\* neither returned nor panicked a call is waiting to be entered or joined,
\* and every step either ends the build or leaves less work.
C30_BuildTerminates ==
    /\ [](\A i \in PendingCalls :
             call[i].parent # <<>> =>
                 /\ call[i].parent[1] >= 3
                 /\ 1 <= Len(call[i].objects)
                 /\ Len(call[i].objects) < call[i].parent[1])
    /\ []((ret # <<>> /\ ret[1].failure = "assert") =>
             (world = <<>> /\ ret[1].parent = <<>>))
    /\ []((world = <<>> /\ gPc # "new") => gPc = "panicked")
    /\ [](gPc = "new" => (call # <<>> /\ call[1].pc \in {"entry", "join"}))
    /\ [](gPc = "done" => call = <<>>)
    /\ [][/\ gPc = "new"
          /\ gPc' \in {"done", "panicked"} \/ WorkLeft(call') < WorkLeft(call)]_vars

\* A list of six objects was built into a tree: the top-level call, two
\* calls with three objects and four with one or two have returned.
C30_Witness ==
    /\ gPc = "done"
    /\ Len(world) = 6
    /\ call = <<>>
    /\ ret[1].parent = <<3>>
    /\ ret[1].failure = "none"

(* ---------- properties of the Perlin tables ---------- *)
IsPermutation(p) ==
    /\ DOMAIN p = 0..(POINT_COUNT - 1)
    /\ {p[m] : m \in DOMAIN p} = 0..(POINT_COUNT - 1)

\* The tables are permutations of 0..255 whenever they exist.
TablesArePermutations ==
    /\ \A t \in DOMAIN call.perm : IsPermutation(call.perm[t])
    /\ IsPermutation(call.p)

\* The indices of sample_noise lie in 0..255 when it returns.
NoiseIndicesInRange ==
    (ret # <<>> /\ ret[1].kind = "noise") =>
        /\ ret[1].lattice \subseteq 0..(POINT_COUNT - 1)
        /\ ret[1].idx \subseteq 0..(POINT_COUNT - 1)

\* C26: every swap target of permute is computed without overflow and lies
\* in [0, i]; perm_x, perm_y and perm_z are permutations of 0..255; and in
\* sample_noise every lattice index and every gradient index lies in
\* [0, 255], for every lattice coordinate.
C26_PerlinIndicesInRange ==
    /\ (ret # <<>> /\ ret[1].kind = "swap") =>
          /\ ret[1].target.ok
          /\ ret[1].target.v.hi = 0 /\ ret[1].target.v.lo <= ret[1].i
    /\ gPc # "panicked"
    /\ TablesArePermutations
    /\ NoiseIndicesInRange

(* ---------- properties of store_pixel_line ---------- *)
RowsStored(c) == {ret[c].rows[n] : n \in DOMAIN ret[c].rows}

\* C27: the line of row j lies at buffer row height - 1 - j, pixel for
\* pixel; the ranges of two different rows lie inside the buffer and do not
\* overlap; and two consumers that have stored the same set of lines, in
\* whatever order, hold the same buffer and the same count.
C27_ReassemblyOrderIndependent ==
    /\ gPc = "store"
    /\ \A c \in {"a", "b"} :
          LET d == ret[c].data
              width == d.last_render_width
              height == d.last_render_height
          IN /\ d.last_render_lines_received = Len(ret[c].rows)
             /\ \A j \in RowsStored(c), x \in 0..(width - 1) :
                   d.last_render_pixels[(height - 1 - j) * width + x] = LinePixel(j, x)
             /\ \A j \in RowIndices(height) :
                   /\ OffsetRange(d, j) \subseteq DOMAIN d.last_render_pixels
                   /\ Cardinality(OffsetRange(d, j)) = width
                   /\ \A k \in RowIndices(height) \ {j} :
                         OffsetRange(d, j) \cap OffsetRange(d, k) = {}
             /\ \A n \in DOMAIN d.last_render_pixels :
                   (\A j \in RowsStored(c) : n \notin OffsetRange(d, j))
                       => d.last_render_pixels[n] = Blank
    /\ RowsStored("a") = RowsStored("b") => ret["a"].data = ret["b"].data

\* Both consumers hold the whole image of three rows, one received it
\* bottom-up and the other top-down.
C27_Witness ==
    /\ call.image_height = 3 /\ call.image_width = 2
    /\ ret["a"].rows = <<0, 1, 2>>
    /\ ret["b"].rows = <<2, 1, 0>>
    /\ complete(ret["a"].data) /\ complete(ret["b"].data)

(* ---------- properties of the consumer under re-requests ---------- *)
\* C28: no ImageLine the consumer processes fails a check of store_pixel_line:
\* its length is the current width, fewer than height lines have been
\* counted since the last Reset, and its row index is below the current
\* height.
C28_StoreAssertionsHold == uiPanic \notin {"len", "count", "index"}

\* The generations whose row tasks have been spawned.
SpawnedGens == {t[1] : t \in DOMAIN tasks}

\* C29: of the generations whose row tasks have been spawned, only the most
\* recent one can have a false flag, and when the scheduler is about to spawn
\* the row tasks of a generation, the flag of every generation spawned before
\* is true.
C29_AtMostOneLiveGeneration ==
    /\ \A g \in SpawnedGens :
          ~flags[g] => \A h \in SpawnedGens : h <= g
    /\ Cardinality({g \in SpawnedGens : ~flags[g]}) <= 1
    /\ schedPc = "spawn" => \A g \in SpawnedGens : g < gen /\ flags[g]

C29_Witness ==
    /\ schedPc = "spawn"
    /\ gen = 2
    /\ SpawnedGens = {1}
    /\ flags[1] /\ ~flags[2]
    /\ \E t \in TasksOf(1) : tasks[t].pc = "queued"
    /\ \E t \in TasksOf(1) : tasks[t].pc = "sending" /\ tasks[t].l2 = "F"

====
